---- MODULE Spec2Model ----
(***************************************************************************)
(* Model of the local persistence layer of Smart-MD-Viewer:                *)
(*   src/src/lib/indexedDB.ts   the store (initDB, documents, folders,     *)
(*                              tickets, exportWorkspace, importWorkspace) *)
(*   src/src/hooks/useTickets.ts  the ticket hook built on it              *)
(*   src/unnamed/part_003         the Index page (editor, auto-save)       *)
(*   src/src/pages/Tickets.tsx    the Tickets page (Sync PR Status)        *)
(*   src/src/components/DocumentSidebar.tsx  the sidebar tree              *)
(* The object stores and indexes follow the IndexedDB semantics the code   *)
(* relies on: in-line keys (keyPath "id"), put = upsert, add = insert-only,*)
(* an index holds one entry per valid key of a record (null and booleans   *)
(* are not valid keys), a multiEntry index one entry per array element,    *)
(* and getAll(null) on an index is the unbounded key range.                *)
(***************************************************************************)
EXTENDS Naturals, Integers, Sequences, FiniteSets, TLC

VARIABLES
  version,          \* on-disk schema version (0: the database does not exist)
  objectStoreNames, \* on-disk: names of the object stores that exist
  documents,        \* on-disk: object store "documents", key -> record
  folders,          \* on-disk: object store "folders", key -> record
  tickets,          \* on-disk: object store "tickets", key -> record
  index,            \* on-disk: <<store, index name>> -> set of [key, pk] entries
  db,               \* module variable `db` of indexedDB.ts (NoDb: null)
  requests,         \* IDBOpenDBRequests in flight, in the order they were issued
  caller,           \* per initDB caller: where its promise stands
  opened,           \* number of indexedDB.open calls issued so far
  upgrades,         \* number of times onupgradeneeded ran
  origin,           \* the on-disk state when the page was loaded
  source,           \* the store content exportWorkspace started from
  tx,               \* importWorkspace's transaction (pc, remaining records, undo)
  snapshot,         \* the value exportWorkspace returned last
  now,              \* Date.now()
  pending,          \* hook updateTicket calls between their read and their write
  ticketsState,     \* useTickets: the `tickets` state
  errorState,       \* useTickets: the `error` state
  activeDocument,   \* Index page: the `activeDocument` state (NoDocument: null)
  saveTimeout,      \* Index page: the record the pending auto-save timer holds
  sync,             \* Tickets page: a running handleSyncPRStatus
  last              \* the last completed operation and its outcome

vars == <<version, objectStoreNames, documents, folders, tickets, index, db,
          requests, caller, opened, upgrades, origin, source, tx, snapshot,
          now, pending, ticketsState, errorState, activeDocument, saveTimeout,
          sync, last>>

disk == <<version, objectStoreNames, documents, folders, tickets, index>>
conn == <<db, requests, caller, opened, upgrades>>
history == <<origin, source>>
hook == <<pending, ticketsState, errorState>>
page == <<activeDocument, saveTimeout, sync>>

(***************************************************************************)
(* Bounds of the model.                                                    *)
(***************************************************************************)
NumCallers == 3
MaxSnapshot == 2
MaxClock == 1
MaxPending == 1
MaxInFlight == 2

(***************************************************************************)
(* Program constants and record shapes.                                    *)
(***************************************************************************)
DB_VERSION == 2

NULL == "null"
NoDb == 0
Undefined == [undefined |-> TRUE]
\* null where a Document is expected (no active document, no pending timer)
NoDocument == [id |-> NULL]
EmptyStore == <<>>

\* request.error.message of a failed IDBRequest (a DOMException).
requestError == "UnknownError"

\* { ...a, ...b }: the properties of b over those of a.
Spread(a, b) ==
  [f \in DOMAIN a \cup DOMAIN b |-> IF f \in DOMAIN b THEN b[f] ELSE a[f]]

DocIds == {"d1", "d2"}
FolderIds == {"f1", "f2"}
TicketIds == {"t1", "t2"}
Tags == {"bug", "urgent", "feature"}

\* ascending key order of the primary keys used in the model
KeyOrder == <<"d1", "d2", "f1", "f2", "t1", "t2">>

TicketStatus == {"todo", "in-progress", "in-review", "done"}
TicketPriority == {"low", "medium", "high"}

\* The type of each record field (interfaces Document, Folder, Ticket).
FieldKind ==
  [id |-> "string", title |-> "string", content |-> "string",
   name |-> "string", description |-> "string",
   status |-> "string", priority |-> "string",
   folderId |-> "nullable", parentId |-> "nullable", assignee |-> "nullable",
   tags |-> "array", linkedPRs |-> "array",
   isPinned |-> "boolean",
   createdAt |-> "number", updatedAt |-> "number"]

Document(id, title, folderId, tags, isPinned, createdAt, updatedAt) ==
  [id |-> id, title |-> title, content |-> "", folderId |-> folderId,
   tags |-> tags, isPinned |-> isPinned,
   createdAt |-> createdAt, updatedAt |-> updatedAt]

Folder(id, name, parentId, createdAt) ==
  [id |-> id, name |-> name, parentId |-> parentId, createdAt |-> createdAt]

Ticket(id, title, status, priority, tags, assignee, createdAt, updatedAt) ==
  [id |-> id, title |-> title, description |-> "", status |-> status,
   priority |-> priority, tags |-> tags, assignee |-> assignee,
   linkedPRs |-> <<>>, createdAt |-> createdAt, updatedAt |-> updatedAt]

\* The documents, folders and tickets the callers save in the model.
DocumentValues ==
  { Document("d1", "Untitled Document", NULL, <<>>, FALSE, 0, 0),
    Document("d1", "Notes", "f1", <<"bug", "urgent">>, TRUE, 0, 1),
    Document("d2", "Todo", "f1", <<"urgent">>, FALSE, 1, 1) }

FolderValues ==
  { Folder("f1", "Work", NULL, 0),
    Folder("f1", "Archive", "f2", 0),
    Folder("f2", "Sub", "f1", 1) }

TicketValues ==
  { Ticket("t1", "Fix login bug", "todo", "high", <<"bug", "urgent">>, NULL, 0, 0),
    Ticket("t1", "Fix login bug", "in-review", "low", <<"bug">>, "ann", 0, 1),
    Ticket("t2", "Write docs", "done", "low", <<>>, NULL, 1, 1) }

(***************************************************************************)
(* The object store engine.                                                *)
(***************************************************************************)
\* createIndex calls of onupgradeneeded
documentsIndexes ==
  { [name |-> "folderId", keyPath |-> "folderId", multiEntry |-> FALSE],
    [name |-> "tags", keyPath |-> "tags", multiEntry |-> TRUE],
    [name |-> "isPinned", keyPath |-> "isPinned", multiEntry |-> FALSE],
    [name |-> "updatedAt", keyPath |-> "updatedAt", multiEntry |-> FALSE] }

foldersIndexes ==
  { [name |-> "parentId", keyPath |-> "parentId", multiEntry |-> FALSE] }

\* Variant: the status index of the tickets store built on the priority field.
ticketsIndexesStatusOnPriority ==
  { [name |-> "status", keyPath |-> "priority", multiEntry |-> FALSE],
    [name |-> "priority", keyPath |-> "priority", multiEntry |-> FALSE],
    [name |-> "tags", keyPath |-> "tags", multiEntry |-> TRUE],
    [name |-> "assignee", keyPath |-> "assignee", multiEntry |-> FALSE],
    [name |-> "updatedAt", keyPath |-> "updatedAt", multiEntry |-> FALSE],
    [name |-> "createdAt", keyPath |-> "createdAt", multiEntry |-> FALSE] }

\* Variant: the tags index of the tickets store without multiEntry.
ticketsIndexesSingleEntry ==
  { [name |-> "status", keyPath |-> "status", multiEntry |-> FALSE],
    [name |-> "priority", keyPath |-> "priority", multiEntry |-> FALSE],
    [name |-> "tags", keyPath |-> "tags", multiEntry |-> FALSE],
    [name |-> "assignee", keyPath |-> "assignee", multiEntry |-> FALSE],
    [name |-> "updatedAt", keyPath |-> "updatedAt", multiEntry |-> FALSE],
    [name |-> "createdAt", keyPath |-> "createdAt", multiEntry |-> FALSE] }

ticketsIndexes ==
  { [name |-> "status", keyPath |-> "status", multiEntry |-> FALSE],
    [name |-> "priority", keyPath |-> "priority", multiEntry |-> FALSE],
    [name |-> "tags", keyPath |-> "tags", multiEntry |-> TRUE],
    [name |-> "assignee", keyPath |-> "assignee", multiEntry |-> FALSE],
    [name |-> "updatedAt", keyPath |-> "updatedAt", multiEntry |-> FALSE],
    [name |-> "createdAt", keyPath |-> "createdAt", multiEntry |-> FALSE] }

IndexesOf(store) ==
  CASE store = "documents" -> documentsIndexes
    [] store = "folders" -> foldersIndexes
    [] store = "tickets" -> ticketsIndexes

StoreNames == {"documents", "folders", "tickets"}

IndexPairs(store) == { <<store, d.name>> : d \in IndexesOf(store) }

IndexDef(store, name) == CHOOSE d \in IndexesOf(store) : d.name = name

Range(s) == { s[i] : i \in DOMAIN s }

\* The index keys of a record under an index definition: the value at the
\* key path when it is a valid key (strings, numbers, arrays; not null, not
\* a boolean, not a missing property); with multiEntry, each array element.
IndexKeys(value, def) ==
  IF def.keyPath \notin DOMAIN value THEN {}
  ELSE LET v == value[def.keyPath]
           kind == FieldKind[def.keyPath]
       IN CASE kind = "string" -> { <<"string", v>> }
            [] kind = "number" -> { <<"number", v>> }
            [] kind = "nullable" -> IF v = NULL THEN {} ELSE { <<"string", v>> }
            [] kind = "boolean" -> {}
            [] kind = "array" ->
                 IF def.multiEntry THEN { <<"string", x>> : x \in Range(v) }
                 ELSE { <<"array", v>> }

EntriesOf(value, def) == { [key |-> k, pk |-> value.id] : k \in IndexKeys(value, def) }

\* The entries of every index of `store` after its content became `content`
\* by writing `value` (or deleting key pk when value is Undefined).
IndexAfterWrite(idx, store, pk, value) ==
  [p \in DOMAIN idx |->
     IF p[1] # store THEN idx[p]
     ELSE LET kept == { e \in idx[p] : e.pk # pk }
          IN IF value = Undefined THEN kept
             ELSE kept \cup EntriesOf(value, IndexDef(store, p[2]))]

\* The index entries of a whole store content.
IndexOfContent(store, content) ==
  [p \in IndexPairs(store) |->
     UNION { EntriesOf(content[k], IndexDef(store, p[2])) : k \in DOMAIN content }]

\* Variant: an insert-only write (add), the stored record kept when the key exists.
PutInsertOnly(content, value) ==
  [k \in DOMAIN content \cup {value.id} |->
     IF k \in DOMAIN content THEN content[k] ELSE value]

\* Variant: an upsert that merges into the stored record, appending arrays.
PutMerging(content, value) ==
  [k \in DOMAIN content \cup {value.id} |->
     IF k # value.id THEN content[k]
     ELSE IF k \in DOMAIN content /\ "tags" \in DOMAIN value
          THEN [value EXCEPT !.tags = content[k].tags \o value.tags]
          ELSE value]

\* IDBObjectStore.put with an in-line key: upsert, the whole value replaced.
Put(content, value) ==
  [k \in DOMAIN content \cup {value.id} |->
     IF k = value.id THEN value ELSE content[k]]

\* IDBObjectStore.delete: removing a missing key is not an error.
Delete(content, id) == [k \in DOMAIN content \ {id} |-> content[k]]

\* IDBObjectStore.get: undefined when the key is missing.
Get(content, id) == IF id \in DOMAIN content THEN content[id] ELSE Undefined

\* IDBObjectStore.getAll: the records in ascending key order.
GetAll(content) ==
  LET keys == SelectSeq(KeyOrder, LAMBDA k : k \in DOMAIN content)
  IN [i \in DOMAIN keys |-> content[keys[i]]]

\* IDBIndex.getAll(query): a null query is the unbounded key range (every
\* record the index holds an entry for); otherwise the records with an entry
\* whose key equals the query. Records are listed once, by primary key.
IndexGetAll(content, entries, query) ==
  LET hit == { e.pk : e \in { e \in entries :
                                IF query = NULL THEN TRUE
                                ELSE e.key[1] = "string" /\ e.key[2] = query } }
      keys == SelectSeq(KeyOrder, LAMBDA k : k \in hit)
  IN [i \in DOMAIN keys |-> content[keys[i]]]

\* Every content an object store can have over a set of record values.
StoresOver(values) ==
  LET ids == { v.id : v \in values }
  IN UNION { { f \in [S -> values] : \A k \in S : f[k].id = k } : S \in SUBSET ids }

(***************************************************************************)
(* initDB: the connection handle and the open request (lines 59-106).      *)
(***************************************************************************)
Callers == 1..NumCallers

Idle == [pc |-> "idle", conn |-> NoDb]

\* State of the page before any initDB call, over a given on-disk state.
ConnInit ==
  /\ db = NoDb
  /\ requests = <<>>
  /\ caller = [c \in Callers |-> Idle]
  /\ opened = 0
  /\ upgrades = 0

Quiet ==
  /\ tx = [pc |-> "none"]
  /\ snapshot = [pc |-> "none"]
  /\ source = [pc |-> "none"]
  /\ now = 0
  /\ pending = <<>>
  /\ ticketsState = <<>>
  /\ errorState = NULL
  /\ activeDocument = NoDocument
  /\ saveTimeout = NoDocument
  /\ sync = [pc |-> "idle"]
  /\ last = [op |-> "none"]

\* A database that was never opened, or one left by schema version 1
\* (documents and folders, no tickets store).
DiskInit ==
  \/ /\ version = 0
     /\ objectStoreNames = {}
     /\ documents = EmptyStore
     /\ folders = EmptyStore
     /\ tickets = EmptyStore
     /\ index = <<>>
  \/ /\ version = 1
     /\ objectStoreNames = {"documents", "folders"}
     /\ documents \in StoresOver(DocumentValues)
     /\ folders \in StoresOver(FolderValues)
     /\ tickets = EmptyStore
     /\ index = IndexOfContent("documents", documents)
                  @@ IndexOfContent("folders", folders)

InitOpen ==
  /\ DiskInit
  /\ ConnInit
  /\ Quiet
  /\ origin = [version |-> version, documents |-> documents, folders |-> folders]

\* initDB(): resolve with the cached handle, or issue indexedDB.open.
initDB(c) ==
  /\ caller[c].pc = "idle"
  /\ \/ /\ db # NoDb
        /\ caller' = [caller EXCEPT ![c] = [pc |-> "resolved", conn |-> db]]
        /\ UNCHANGED <<requests, opened>>
     \/ /\ db = NoDb
        /\ opened' = opened + 1
        /\ requests' = Append(requests, [id |-> opened + 1, caller |-> c,
                                         upgraded |-> FALSE])
        /\ caller' = [caller EXCEPT ![c] = [pc |-> "waiting", conn |-> NoDb]]
  /\ UNCHANGED <<db, upgrades, disk, history, page, tx, snapshot, now, hook, last>>

\* Variant: a migration that recreates every store.
Recreated(store, content) == EmptyStore

\* database.createObjectStore(name, {keyPath: "id"}) with its createIndex
\* calls, guarded by !objectStoreNames.contains(name).
CreatedIfAbsent(store, content) ==
  IF store \in objectStoreNames THEN content ELSE EmptyStore

\* Variant: an upgrade that creates the indexes of the tickets store only.
UpgradedIndexTicketsOnly ==
  LET created == IndexPairs("tickets")
  IN [p \in DOMAIN index \cup created |->
        IF p \in DOMAIN index THEN index[p] ELSE {}]

UpgradedIndex ==
  LET created == UNION { IndexPairs(s) : s \in StoreNames \ objectStoreNames }
  IN [p \in DOMAIN index \cup created |->
        IF p \in DOMAIN index THEN index[p] ELSE {}]

\* Variant: an upgrade event fired for every open request.
onupgradeneededEveryOpen ==
  /\ requests # <<>>
  /\ ~requests[1].upgraded
  /\ version' = DB_VERSION
  /\ objectStoreNames' = objectStoreNames \cup StoreNames
  /\ documents' = CreatedIfAbsent("documents", documents)
  /\ folders' = CreatedIfAbsent("folders", folders)
  /\ tickets' = CreatedIfAbsent("tickets", tickets)
  /\ index' = UpgradedIndex
  /\ upgrades' = upgrades + 1
  /\ requests' = [requests EXCEPT ![1].upgraded = TRUE]
  /\ UNCHANGED <<db, caller, opened, history, page, tx, snapshot, now, hook, last>>

\* request.onupgradeneeded: runs for the request at the head of the queue
\* when the stored version is below the requested one.
onupgradeneeded ==
  /\ requests # <<>>
  /\ ~requests[1].upgraded
  /\ version < DB_VERSION
  /\ version' = DB_VERSION
  /\ objectStoreNames' = objectStoreNames \cup StoreNames
  /\ documents' = CreatedIfAbsent("documents", documents)
  /\ folders' = CreatedIfAbsent("folders", folders)
  /\ tickets' = CreatedIfAbsent("tickets", tickets)
  /\ index' = UpgradedIndex
  /\ upgrades' = upgrades + 1
  /\ requests' = [requests EXCEPT ![1].upgraded = TRUE]
  /\ UNCHANGED <<db, caller, opened, history, page, tx, snapshot, now, hook, last>>

\* request.onsuccess: db = request.result; resolve(db).
onsuccess ==
  /\ requests # <<>>
  /\ version = DB_VERSION
  /\ db' = requests[1].id
  /\ caller' = [caller EXCEPT ![requests[1].caller] =
                  [pc |-> "resolved", conn |-> requests[1].id]]
  /\ requests' = Tail(requests)
  /\ UNCHANGED <<opened, upgrades, disk, history, page, tx, snapshot, now, hook, last>>

\* request.onerror: reject(request.error); the handle is left as it was. The
\* open fails before its upgrade transaction commits (an aborted upgrade is
\* rolled back).
onerror ==
  /\ requests # <<>>
  /\ ~requests[1].upgraded
  /\ caller' = [caller EXCEPT ![requests[1].caller] =
                  [pc |-> "rejected", conn |-> NoDb]]
  /\ requests' = Tail(requests)
  /\ UNCHANGED <<db, opened, upgrades, disk, history, page, tx, snapshot, now, hook, last>>

NextOpen ==
  \/ \E c \in Callers : initDB(c)
  \/ onupgradeneeded
  \/ onsuccess
  \/ onerror

SpecOpen == InitOpen /\ [][NextOpen]_vars

(***************************************************************************)
(* Collection operations on an open database (lines 108-258, 298-395).     *)
(* Each awaits initDB(), which resolves with the cached handle, and runs   *)
(* one request in a transaction of its own.                                *)
(***************************************************************************)
AllIndexes == UNION { IndexPairs(s) : s \in StoreNames }

\* The page after a first successful initDB: version 2, three empty stores.
Opened ==
  /\ version = DB_VERSION
  /\ objectStoreNames = StoreNames
  /\ db = 1
  /\ requests = <<>>
  /\ caller = [c \in Callers |-> IF c = 1 THEN [pc |-> "resolved", conn |-> 1] ELSE Idle]
  /\ opened = 1
  /\ upgrades = 1

Init ==
  /\ Opened
  /\ documents = EmptyStore
  /\ folders = EmptyStore
  /\ tickets = EmptyStore
  /\ index = [p \in AllIndexes |-> {}]
  /\ origin = [version |-> 0, documents |-> EmptyStore, folders |-> EmptyStore]
  /\ Quiet

\* No importWorkspace transaction holds the documents and folders stores.
Free == tx.pc = "none"

\* What `last` records of an operation: its name and argument, whether its
\* promise resolved, whether the key was stored before it ran, and whether it
\* repeats the operation before it (same name, same argument).
Done(op, arg, had) ==
  [op |-> op, arg |-> arg, ok |-> TRUE, had |-> had,
   again |-> (last.op = op /\ last.arg = arg)]
\* The same for a hook or transfer operation (arg: a key or a label).
Outcome(op, id, ok) ==
  [op |-> op, arg |-> id, ok |-> ok, had |-> FALSE, again |-> FALSE]
Failed(op, arg, had) ==
  [op |-> op, arg |-> arg, ok |-> FALSE, had |-> had,
   again |-> (last.op = op /\ last.arg = arg)]

saveDocument(doc) ==
  /\ db # NoDb /\ Free
  /\ documents' = Put(documents, doc)
  /\ index' = IndexAfterWrite(index, "documents", doc.id, doc)
  /\ last' = Done("saveDocument", doc, doc.id \in DOMAIN documents)
  /\ UNCHANGED <<version, objectStoreNames, folders, tickets, conn, page, history, tx,
                 snapshot, now, hook>>

deleteDocument(id) ==
  /\ db # NoDb /\ Free
  /\ documents' = Delete(documents, id)
  /\ index' = IndexAfterWrite(index, "documents", id, Undefined)
  /\ last' = Done("deleteDocument", id, id \in DOMAIN documents)
  /\ UNCHANGED <<version, objectStoreNames, folders, tickets, conn, page, history, tx,
                 snapshot, now, hook>>

saveFolder(folder) ==
  /\ db # NoDb /\ Free
  /\ folders' = Put(folders, folder)
  /\ index' = IndexAfterWrite(index, "folders", folder.id, folder)
  /\ last' = Done("saveFolder", folder, folder.id \in DOMAIN folders)
  /\ UNCHANGED <<version, objectStoreNames, documents, tickets, conn, page, history, tx,
                 snapshot, now, hook>>

\* Variant: a folder delete that also deletes the documents of the folder.
deleteFolderCascading(id) ==
  /\ db # NoDb /\ Free
  /\ folders' = Delete(folders, id)
  /\ documents' = [k \in { d \in DOMAIN documents : documents[d].folderId # id } |->
                     documents[k]]
  /\ index' = [p \in DOMAIN index |->
                 IF p[1] = "documents" THEN IndexOfContent("documents", documents')[p]
                 ELSE IF p[1] = "folders" THEN IndexOfContent("folders", folders')[p]
                 ELSE index[p]]
  /\ last' = Done("deleteFolder", id, id \in DOMAIN folders)
  /\ UNCHANGED <<version, objectStoreNames, tickets, conn, page, history, tx,
                 snapshot, now, hook>>

deleteFolder(id) ==
  /\ db # NoDb /\ Free
  /\ folders' = Delete(folders, id)
  /\ index' = IndexAfterWrite(index, "folders", id, Undefined)
  /\ last' = Done("deleteFolder", id, id \in DOMAIN folders)
  /\ UNCHANGED <<version, objectStoreNames, documents, tickets, conn, page, history, tx,
                 snapshot, now, hook>>

\* Variant: a create that writes with put, replacing a stored ticket.
createTicketOverwriting(ticket) ==
  /\ db # NoDb
  /\ tickets' = Put(tickets, ticket)
  /\ index' = IndexAfterWrite(index, "tickets", ticket.id, ticket)
  /\ last' = Done("createTicket", ticket, ticket.id \in DOMAIN tickets)
  /\ UNCHANGED <<version, objectStoreNames, documents, folders, conn, page, history, tx,
                 snapshot, now, hook>>

\* store.add(ticket): insert-only, a ConstraintError when the key exists.
createTicket(ticket) ==
  /\ db # NoDb
  /\ IF ticket.id \in DOMAIN tickets
     THEN /\ last' = Failed("createTicket", ticket, TRUE)
          /\ UNCHANGED <<tickets, index>>
     ELSE /\ tickets' = Put(tickets, ticket)
          /\ index' = IndexAfterWrite(index, "tickets", ticket.id, ticket)
          /\ last' = Done("createTicket", ticket, FALSE)
  /\ UNCHANGED <<version, objectStoreNames, documents, folders, conn, page, history, tx,
                 snapshot, now, hook>>

updateTicket(ticket) ==
  /\ db # NoDb
  /\ tickets' = Put(tickets, ticket)
  /\ index' = IndexAfterWrite(index, "tickets", ticket.id, ticket)
  /\ last' = Done("updateTicket", ticket, ticket.id \in DOMAIN tickets)
  /\ UNCHANGED <<version, objectStoreNames, documents, folders, conn, page, history, tx,
                 snapshot, now, hook>>

\* Variant: a delete that rejects when the key is not stored.
deleteTicketStrict(id) ==
  /\ db # NoDb
  /\ IF id \in DOMAIN tickets
     THEN /\ tickets' = Delete(tickets, id)
          /\ index' = IndexAfterWrite(index, "tickets", id, Undefined)
          /\ last' = Done("deleteTicket", id, TRUE)
     ELSE /\ last' = Failed("deleteTicket", id, FALSE)
          /\ UNCHANGED <<tickets, index>>
  /\ UNCHANGED <<version, objectStoreNames, documents, folders, conn, page, history, tx,
                 snapshot, now, hook>>

deleteTicket(id) ==
  /\ db # NoDb
  /\ tickets' = Delete(tickets, id)
  /\ index' = IndexAfterWrite(index, "tickets", id, Undefined)
  /\ last' = Done("deleteTicket", id, id \in DOMAIN tickets)
  /\ UNCHANGED <<version, objectStoreNames, documents, folders, conn, page, history, tx,
                 snapshot, now, hook>>

\* The read operations: each resolves with the result of one request.
getDocument(id) == Get(documents, id)
getFolder(id) == Get(folders, id)
getTicket(id) == Get(tickets, id)
getAllDocuments == GetAll(documents)
getAllFolders == GetAll(folders)
getAllTickets == GetAll(tickets)
getDocumentsByFolder(folderId) ==
  IndexGetAll(documents, index[<<"documents", "folderId">>], folderId)
getDocumentsByTag(tag) ==
  IndexGetAll(documents, index[<<"documents", "tags">>], tag)
getFoldersByParent(parentId) ==
  IndexGetAll(folders, index[<<"folders", "parentId">>], parentId)
getTicketsByStatus(status) ==
  IndexGetAll(tickets, index[<<"tickets", "status">>], status)
getTicketsByPriority(priority) ==
  IndexGetAll(tickets, index[<<"tickets", "priority">>], priority)
getTicketsByTag(tag) ==
  IndexGetAll(tickets, index[<<"tickets", "tags">>], tag)

Next ==
  \/ \E doc \in DocumentValues : saveDocument(doc)
  \/ \E id \in DocIds : deleteDocument(id)
  \/ \E folder \in FolderValues : saveFolder(folder)
  \/ \E id \in FolderIds : deleteFolder(id)
  \/ \E ticket \in TicketValues : createTicket(ticket)
  \/ \E ticket \in TicketValues : updateTicket(ticket)
  \/ \E id \in TicketIds : deleteTicket(id)

Spec == Init /\ [][Next]_vars

(***************************************************************************)
(* Workspace transfer (lines 260-292).                                     *)
(***************************************************************************)
RECURSIVE SeqsUpTo(_, _)
\* The sequences over `values` of length at most n.
SeqsUpTo(values, n) ==
  IF n = 0 THEN { <<>> }
  ELSE LET shorter == SeqsUpTo(values, n - 1)
       IN shorter \cup { Append(q, v) : q \in shorter, v \in values }

\* The snapshots handed to importWorkspace in the model.
SnapshotValues ==
  { [documents |-> ds, folders |-> fs] :
      ds \in SeqsUpTo(DocumentValues, MaxSnapshot),
      fs \in SeqsUpTo(FolderValues, MaxSnapshot) }

\* What the user imports: a hand-made file as long as nothing was exported,
\* the exported snapshot afterwards.
HandMadeValues ==
  { d \in SnapshotValues : Len(d.documents) + Len(d.folders) <= MaxSnapshot }

ImportValues ==
  CASE snapshot.pc = "none" -> HandMadeValues
    [] snapshot.pc = "done" ->
         { [documents |-> snapshot.documents, folders |-> snapshot.folders] }
    [] OTHER -> {}

\* A page opened over a version-2 store that already holds records.
InitTransfer ==
  /\ Opened
  /\ documents \in StoresOver(DocumentValues)
  /\ folders \in StoresOver(FolderValues)
  /\ tickets = [k \in TicketIds |-> CHOOSE t \in TicketValues : t.id = k]
  /\ index = IndexOfContent("documents", documents)
               @@ IndexOfContent("folders", folders)
               @@ IndexOfContent("tickets", tickets)
  /\ origin = [version |-> DB_VERSION, documents |-> documents, folders |-> folders]
  /\ Quiet

\* exportWorkspace, first await: documents = await getAllDocuments().
exportDocuments ==
  /\ db # NoDb /\ Free
  /\ snapshot.pc = "none"
  /\ snapshot' = [pc |-> "documents", documents |-> getAllDocuments]
  /\ source' = [pc |-> "reading", documents |-> documents, folders |-> folders]
  /\ UNCHANGED <<disk, conn, page, origin, tx, now, hook, last>>

\* Variant: the folders of the snapshot read from the documents store.
exportFoldersFromDocuments ==
  /\ db # NoDb /\ Free
  /\ snapshot.pc = "documents"
  /\ snapshot' = [pc |-> "done", documents |-> snapshot.documents,
                  folders |-> getAllDocuments]
  /\ source' = [source EXCEPT !.pc =
                  IF documents = source.documents /\ folders = source.folders
                  THEN "read" ELSE "changed"]
  /\ last' = Outcome("exportWorkspace", "all", TRUE)
  /\ UNCHANGED <<disk, conn, page, origin, tx, now, hook>>

\* Variant: a snapshot that also carries the tickets.
exportFoldersAndTickets ==
  /\ db # NoDb /\ Free
  /\ snapshot.pc = "documents"
  /\ snapshot' = [pc |-> "done", documents |-> snapshot.documents,
                  folders |-> getAllFolders, tickets |-> getAllTickets]
  /\ source' = [source EXCEPT !.pc =
                  IF documents = source.documents /\ folders = source.folders
                  THEN "read" ELSE "changed"]
  /\ last' = Outcome("exportWorkspace", "all", TRUE)
  /\ UNCHANGED <<disk, conn, page, origin, tx, now, hook>>

\* exportWorkspace, second await: folders = await getAllFolders(); return.
exportFolders ==
  /\ db # NoDb /\ Free
  /\ snapshot.pc = "documents"
  /\ snapshot' = [pc |-> "done", documents |-> snapshot.documents,
                  folders |-> getAllFolders]
  /\ source' = [source EXCEPT !.pc =
                  IF documents = source.documents /\ folders = source.folders
                  THEN "read" ELSE "changed"]
  /\ last' = Outcome("exportWorkspace", "all", TRUE)
  /\ UNCHANGED <<disk, conn, page, origin, tx, now, hook>>

\* The snapshot is carried to a store that holds nothing: a database first
\* opened by initDB there (three empty stores).
openEmptyStore ==
  /\ db # NoDb /\ Free
  /\ snapshot.pc = "done"
  /\ documents' = EmptyStore
  /\ folders' = EmptyStore
  /\ tickets' = EmptyStore
  /\ index' = [p \in AllIndexes |-> {}]
  /\ last' = Outcome("initDB", "empty", TRUE)
  /\ UNCHANGED <<version, objectStoreNames, conn, page, history, tx, snapshot, now, hook>>

\* The records of field f of an import file; none when the file lacks it.
Field(data, f) == IF f \in DOMAIN data THEN data[f] ELSE <<>>

\* importWorkspace's transaction as it is created: the records each loop has
\* still to put, the fields the file lacks, the number of puts applied and
\* the content the transaction started from (what an abort restores).
Transaction(data) ==
  [pc |-> "running", data |-> data,
   folders |-> Field(data, "folders"), documents |-> Field(data, "documents"),
   missing |-> {"folders", "documents"} \ DOMAIN data,
   applied |-> 0,
   undo |-> [documents |-> documents, folders |-> folders]]

\* Variant: an import that replaces the workspace (clears both stores first).
importWorkspaceReplacing(data) ==
  /\ db # NoDb /\ Free
  /\ tx' = Transaction(data)
  /\ documents' = EmptyStore
  /\ folders' = EmptyStore
  /\ index' = [p \in DOMAIN index |-> IF p[1] = "tickets" THEN index[p] ELSE {}]
  /\ UNCHANGED <<version, objectStoreNames, tickets, conn, page, history, snapshot, now,
                 hook, last>>

\* importWorkspace(data): the readwrite transaction over documents and folders
\* is created; the puts follow one at a time.
importWorkspace(data) ==
  /\ db # NoDb /\ Free
  /\ tx' = Transaction(data)
  /\ UNCHANGED <<disk, conn, page, history, snapshot, now, hook, last>>

\* The loop importWorkspace is in, and the record it is about to put.
InFolders == "folders" \in tx.missing \/ tx.folders # <<>>
NextRecord == IF tx.folders # <<>> THEN Head(tx.folders) ELSE Head(tx.documents)

\* The next step of importWorkspace is a put the engine accepts.
CanPut ==
  /\ tx.pc = "running"
  /\ IF InFolders THEN tx.folders # <<>>
     ELSE "documents" \notin tx.missing /\ tx.documents # <<>>
  /\ "id" \in DOMAIN NextRecord

\* Variant: an import that issues its puts without awaiting each, documents
\* and folders in any order.
importPutUnordered ==
  /\ tx.pc = "running"
  /\ tx.missing = {}
  /\ \/ /\ tx.folders # <<>>
        /\ "id" \in DOMAIN Head(tx.folders)
        /\ folders' = Put(folders, Head(tx.folders))
        /\ index' = IndexAfterWrite(index, "folders", Head(tx.folders).id,
                                     Head(tx.folders))
        /\ tx' = [tx EXCEPT !.folders = Tail(tx.folders), !.applied = @ + 1]
        /\ UNCHANGED documents
     \/ /\ tx.documents # <<>>
        /\ "id" \in DOMAIN Head(tx.documents)
        /\ documents' = Put(documents, Head(tx.documents))
        /\ index' = IndexAfterWrite(index, "documents", Head(tx.documents).id,
                                     Head(tx.documents))
        /\ tx' = [tx EXCEPT !.documents = Tail(tx.documents), !.applied = @ + 1]
        /\ UNCHANGED folders
  /\ UNCHANGED <<version, objectStoreNames, tickets, conn, page, history, snapshot, now,
                 hook, last>>

\* One awaited put of importWorkspace: the next folder, and once every folder
\* is written, the next document.
importPut ==
  /\ CanPut
  /\ \/ /\ InFolders
        /\ folders' = Put(folders, Head(tx.folders))
        /\ index' = IndexAfterWrite(index, "folders", Head(tx.folders).id,
                                     Head(tx.folders))
        /\ tx' = [tx EXCEPT !.folders = Tail(tx.folders), !.applied = @ + 1]
        /\ UNCHANGED documents
     \/ /\ ~InFolders
        /\ documents' = Put(documents, Head(tx.documents))
        /\ index' = IndexAfterWrite(index, "documents", Head(tx.documents).id,
                                     Head(tx.documents))
        /\ tx' = [tx EXCEPT !.documents = Tail(tx.documents), !.applied = @ + 1]
        /\ UNCHANGED folders
  /\ UNCHANGED <<version, objectStoreNames, tickets, conn, page, history, snapshot, now,
                 hook, last>>

\* How an import ended: resolved or rejected (with the error's name), the
\* number of puts applied before, and whether they had changed the store.
Ended(ok, reason) ==
  Spread(Outcome("importWorkspace",
                 IF snapshot.pc = "done" THEN "snapshot" ELSE "file", ok),
         [had |-> DOMAIN tx.undo.documents \cup DOMAIN tx.undo.folders # {},
          reason |-> reason, applied |-> tx.applied,
          changed |-> (documents # tx.undo.documents \/ folders # tx.undo.folders)])

\* Variant: a throw that aborts the transaction.
importThrowsAborting ==
  /\ tx.pc = "running"
  /\ ~CanPut
  /\ IF InFolders THEN TRUE ELSE "documents" \in tx.missing \/ tx.documents # <<>>
  /\ documents' = tx.undo.documents
  /\ folders' = tx.undo.folders
  /\ index' = [p \in DOMAIN index |->
                 IF p[1] = "documents" THEN IndexOfContent("documents", documents')[p]
                 ELSE IF p[1] = "folders" THEN IndexOfContent("folders", folders')[p]
                 ELSE index[p]]
  /\ tx' = [pc |-> "none"]
  /\ last' = Ended(FALSE, "TypeError")
  /\ UNCHANGED <<version, objectStoreNames, tickets, conn, page, history, snapshot, now,
                 hook>>

\* Variant: a failed put that leaves the transaction to commit.
importPutFailsKeeping ==
  /\ CanPut
  /\ tx' = [pc |-> "none"]
  /\ last' = Ended(FALSE, requestError)
  /\ UNCHANGED <<disk, conn, page, history, snapshot, now, hook>>

\* importWorkspace throws: `for (... of data.folders)` or `of data.documents`
\* on a file without that field (TypeError), or put() on a record without
\* the key path (DataError). The promise rejects; nothing aborts the
\* transaction, which commits the puts made so far.
importThrows ==
  /\ tx.pc = "running"
  /\ ~CanPut
  /\ \/ IF InFolders THEN tx.folders = <<>> ELSE "documents" \in tx.missing
     \/ IF InFolders THEN tx.folders # <<>> ELSE tx.documents # <<>>
  /\ tx' = [pc |-> "none"]
  /\ last' = Ended(FALSE,
                   IF (IF InFolders THEN tx.folders = <<>>
                       ELSE "documents" \in tx.missing)
                   THEN "TypeError" ELSE "DataError")
  /\ UNCHANGED <<disk, conn, page, history, snapshot, now, hook>>

\* The put request at hand fails at the storage layer: request.onerror
\* rejects the promise, and the error event, not prevented, aborts the
\* transaction, which reverts every put made in it.
importPutFails ==
  /\ CanPut
  /\ documents' = tx.undo.documents
  /\ folders' = tx.undo.folders
  /\ index' = [p \in DOMAIN index |->
                 IF p[1] = "documents" THEN IndexOfContent("documents", documents')[p]
                 ELSE IF p[1] = "folders" THEN IndexOfContent("folders", folders')[p]
                 ELSE index[p]]
  /\ tx' = [pc |-> "none"]
  /\ last' = Ended(FALSE, requestError)
  /\ UNCHANGED <<version, objectStoreNames, tickets, conn, page, history, snapshot, now,
                 hook>>

\* The last put has succeeded: the promise of importWorkspace resolves.
importDone ==
  /\ tx.pc = "running"
  /\ tx.missing = {}
  /\ tx.folders = <<>>
  /\ tx.documents = <<>>
  /\ tx' = [pc |-> "none"]
  /\ last' = Ended(TRUE, NULL)
  /\ UNCHANGED <<disk, conn, page, history, snapshot, now, hook>>

\* The debounced auto-save of the page firing (setTimeout, 500 ms after the
\* last edit): saveDocument(doc), whatever else is awaiting.
autoSave(doc) == saveDocument(doc)

NextTransfer ==
  \/ \E doc \in DocumentValues : autoSave(doc)
  \/ exportDocuments
  \/ exportFolders
  \/ openEmptyStore
  \/ \E data \in ImportValues : importWorkspace(data)
  \/ importPut
  \/ importDone

SpecTransfer == InitTransfer /\ [][NextTransfer]_vars

\* Import files that lack a field or hold a record without an id, and two
\* well-formed ones.
ImportFiles ==
  LET f1 == Folder("f1", "Archive", "f2", 0)
      f2 == Folder("f2", "Sub", "f1", 1)
      d1 == Document("d1", "Notes", "f1", <<"bug", "urgent">>, TRUE, 0, 1)
      d2 == Document("d2", "Todo", "f1", <<"urgent">>, FALSE, 1, 1)
      noId == [name |-> "Lost", parentId |-> NULL, createdAt |-> 0]
  IN { [documents |-> <<d1>>],
       [folders |-> <<f1, f2>>],
       [folders |-> <<f1, noId, f2>>, documents |-> <<d1>>],
       [folders |-> <<f2>>, documents |-> <<d1, [title |-> "Lost"], d2>>],
       [folders |-> <<f1, f2>>, documents |-> <<d1, d2>>],
       [folders |-> <<>>, documents |-> <<>>] }

\* A page opened over a version-2 store holding some documents and folders.
InitImport ==
  /\ Opened
  /\ documents \in StoresOver({ d \in DocumentValues : d.createdAt = 0 })
  /\ folders \in StoresOver({ f \in FolderValues : f.parentId = NULL })
  /\ tickets = [k \in TicketIds |-> CHOOSE t \in TicketValues : t.id = k]
  /\ index = IndexOfContent("documents", documents)
               @@ IndexOfContent("folders", folders)
               @@ IndexOfContent("tickets", tickets)
  /\ origin = [version |-> DB_VERSION, documents |-> documents, folders |-> folders]
  /\ Quiet

NextImport ==
  \/ \E data \in ImportFiles : importWorkspace(data)
  \/ importPut
  \/ importThrows
  \/ importPutFails
  \/ importDone

SpecImport == InitImport /\ [][NextImport]_vars

(***************************************************************************)
(* The ticket hook (src/src/hooks/useTickets.ts).                          *)
(***************************************************************************)
\* What the callers pass to the hook in the model.
TicketDataValues ==
  { [title |-> "Fix login bug", description |-> "", status |-> "todo",
     priority |-> "high", tags |-> <<"bug">>, assignee |-> NULL,
     linkedPRs |-> <<>>] }

\* Partial<Ticket> values passed to updateTicket (moveTicket passes {status}).
UpdateValues ==
  { [priority |-> "low", tags |-> <<"bug", "urgent">>, id |-> "t2"] }

Clock == 0..MaxClock

\* The Tickets page mounted over a freshly opened, empty store.
InitTickets ==
  /\ Opened
  /\ documents = EmptyStore
  /\ folders = EmptyStore
  /\ tickets = EmptyStore
  /\ index = [p \in AllIndexes |-> {}]
  /\ origin = [version |-> 0, documents |-> EmptyStore, folders |-> EmptyStore]
  /\ Quiet

\* Date.now() between two operations: the clock never goes back.
Tick ==
  /\ now < MaxClock
  /\ now' = now + 1
  /\ UNCHANGED <<disk, conn, page, history, tx, snapshot, hook, last>>

\* refreshTickets: setError(null); setTickets(await getAllTickets()).
Refreshed(content) == GetAll(content)

\* useTickets.createTicket(ticketData): id = crypto.randomUUID(), both
\* timestamps Date.now(); createTicketDB (store.add), then refreshTickets.
hook_createTicket(ticketData, id) ==
  /\ db # NoDb
  /\ id \notin DOMAIN tickets
  /\ \A i \in DOMAIN pending : pending[i].id # id
  /\ LET newTicket == Spread(ticketData,
                             [id |-> id, createdAt |-> now, updatedAt |-> now])
     IN /\ tickets' = Put(tickets, newTicket)
        /\ index' = IndexAfterWrite(index, "tickets", id, newTicket)
        /\ ticketsState' = Refreshed(tickets')
        /\ errorState' = NULL
        /\ last' = Outcome("createTicket", id, TRUE)
  /\ UNCHANGED <<version, objectStoreNames, documents, folders, conn, page, history, tx,
                 snapshot, now, pending>>

\* Variant: an update that writes the changes when the ticket is missing.
hook_updateTicketUpserting(id, updates) ==
  /\ db # NoDb
  /\ Len(pending) < MaxPending
  /\ pending' = Append(pending,
         Spread(Spread(IF getTicket(id) = Undefined THEN <<>> ELSE getTicket(id),
                       updates),
                [id |-> id, updatedAt |-> now]))
  /\ UNCHANGED <<errorState, last>>
  /\ UNCHANGED <<disk, conn, page, history, tx, snapshot, now, ticketsState>>

\* Variant: an update that stamps createdAt as well.
hook_updateTicketRestamped(id, updates) ==
  /\ db # NoDb
  /\ Len(pending) < MaxPending
  /\ IF getTicket(id) = Undefined
     THEN /\ errorState' = "Ticket not found"
          /\ last' = Outcome("updateTicket", id, FALSE)
          /\ UNCHANGED pending
     ELSE /\ pending' = Append(pending,
                 Spread(Spread(getTicket(id), updates),
                        [id |-> id, createdAt |-> now, updatedAt |-> now]))
          /\ UNCHANGED <<errorState, last>>
  /\ UNCHANGED <<disk, conn, page, history, tx, snapshot, now, ticketsState>>

\* useTickets.updateTicket(id, updates) up to its write: getTicket(id), a
\* "Ticket not found" error when it is missing, else the merged ticket with
\* id kept and updatedAt = Date.now(), handed to updateTicketDB. At most
\* `inFlight` updates are between their read and their write.
hook_updateTicketWithin(inFlight, id, updates) ==
  /\ db # NoDb
  /\ Len(pending) < inFlight
  /\ IF getTicket(id) = Undefined
     THEN /\ errorState' = "Ticket not found"
          /\ last' = Outcome("updateTicket", id, FALSE)
          /\ UNCHANGED pending
     ELSE /\ pending' = Append(pending,
                 Spread(Spread(getTicket(id), updates),
                        [id |-> id, updatedAt |-> now]))
          /\ UNCHANGED <<errorState, last>>
  /\ UNCHANGED <<disk, conn, page, history, tx, snapshot, now, ticketsState>>

\* The same with at most MaxPending updates between read and write.
hook_updateTicket(id, updates) == hook_updateTicketWithin(MaxPending, id, updates)

\* useTickets.moveTicket(id, newStatus): updateTicket(id, {status: newStatus}).
hook_moveTicket(id, newStatus) == hook_updateTicket(id, [status |-> newStatus])

\* The write of a hook updateTicket: updateTicketDB (store.put), then
\* refreshTickets.
hook_updateTicketWrite ==
  /\ pending # <<>>
  /\ "status" \in DOMAIN Head(pending)
  /\ tickets' = Put(tickets, Head(pending))
  /\ index' = IndexAfterWrite(index, "tickets", Head(pending).id, Head(pending))
  /\ pending' = Tail(pending)
  /\ ticketsState' = Refreshed(tickets')
  /\ errorState' = NULL
  /\ last' = Outcome("updateTicket", Head(pending).id, TRUE)
  /\ UNCHANGED <<version, objectStoreNames, documents, folders, conn, page, history, tx,
                 snapshot, now>>

\* A request of a hook updateTicket fails (request.onerror): its getTicket, or
\* the put it issued. The catch sets the error state to the error's message
\* and rethrows; nothing is written.
hook_updateTicketFails(id) ==
  /\ db # NoDb
  /\ \/ /\ \A i \in DOMAIN pending : pending[i].id # id
        /\ UNCHANGED pending
     \/ /\ pending # <<>>
        /\ "status" \in DOMAIN Head(pending)
        /\ Head(pending).id = id
        /\ pending' = Tail(pending)
  /\ errorState' = requestError
  /\ last' = Outcome("updateTicket", id, FALSE)
  /\ UNCHANGED <<disk, conn, page, history, tx, snapshot, now, ticketsState>>

\* useTickets.deleteTicket(id): deleteTicketDB, then refreshTickets.
hook_deleteTicket(id) ==
  /\ db # NoDb
  /\ tickets' = Delete(tickets, id)
  /\ index' = IndexAfterWrite(index, "tickets", id, Undefined)
  /\ ticketsState' = Refreshed(tickets')
  /\ errorState' = NULL
  /\ last' = Outcome("deleteTicket", id, TRUE)
  /\ UNCHANGED <<version, objectStoreNames, documents, folders, conn, page, history, tx,
                 snapshot, now, pending>>

NextTickets ==
  \/ Tick
  \/ \E d \in TicketDataValues, id \in TicketIds : hook_createTicket(d, id)
  \/ \E id \in TicketIds, u \in UpdateValues : hook_updateTicket(id, u)
  \/ \E id \in TicketIds, st \in TicketStatus : hook_moveTicket(id, st)
  \/ hook_updateTicketWrite
  \/ \E id \in TicketIds : hook_updateTicketFails(id)
  \/ \E id \in TicketIds : hook_deleteTicket(id)

SpecTickets == InitTickets /\ [][NextTickets]_vars

(***************************************************************************)
(* Properties of initDB (SpecOpen).                                        *)
(***************************************************************************)

\* C1: opening a version-1 store at version 2 leaves every document and
\* folder record as it was (none added, removed or changed) and makes the
\* tickets store present and empty.
UpgradeNonDestructive ==
  (origin.version = 1 /\ version = DB_VERSION) =>
    /\ documents = origin.documents
    /\ folders = origin.folders
    /\ "tickets" \in objectStoreNames
    /\ tickets = EmptyStore

\* A populated version-1 store has been upgraded and opened.
UpgradedPopulatedStore ==
  /\ origin.version = 1
  /\ version = DB_VERSION
  /\ upgrades = 1
  /\ db # NoDb
  /\ DOMAIN documents = DocIds
  /\ DOMAIN folders = FolderIds

\* C2: callers that invoke initDB before the first open has completed share
\* one open attempt and all receive the same connection.
InitDBSharesOpen ==
  /\ Len(requests) <= 1
  /\ \A c1, c2 \in Callers :
       (caller[c1].pc = "resolved" /\ caller[c2].pc = "resolved")
         => caller[c1].conn = caller[c2].conn

(***************************************************************************)
(* Properties of the collection operations (Spec).                         *)
(***************************************************************************)
UpsertPost(before, after, l) ==
  /\ l.ok
  /\ Get(after, l.arg.id) = l.arg
  /\ DOMAIN after = DOMAIN before \cup {l.arg.id}
  /\ \A k \in DOMAIN before \ {l.arg.id} : after[k] = before[k]

\* C5: saveDocument(r), saveFolder(r) and updateTicket(r) are upserts by
\* primary key: afterwards get(r.id) is exactly r, the record is inserted
\* when its id was absent, and every record with another id is unchanged.
PutIsUpsert ==
  [][ /\ (last'.op = "saveDocument" => UpsertPost(documents, documents', last'))
      /\ (last'.op = "saveFolder" => UpsertPost(folders, folders', last'))
      /\ (last'.op = "updateTicket" => UpsertPost(tickets, tickets', last')) ]_vars

\* saveDocument has replaced a stored document by the "Notes" one.
DocumentReplaced ==
  /\ last.op = "saveDocument"
  /\ last.had
  /\ ~last.again
  /\ last.arg.title = "Notes"
  /\ getDocument("d1") = last.arg

TaggedWith(records, t) == { r \in Range(records) : t \in Range(r.tags) }

\* C7: getTicketsByTag(t) and getDocumentsByTag(t) return exactly the stored
\* records whose tags array contains t.
TagMultiIndex ==
  \A t \in Tags :
    /\ Range(getTicketsByTag(t)) = TaggedWith(getAllTickets, t)
    /\ Range(getDocumentsByTag(t)) = TaggedWith(getAllDocuments, t)

\* A ticket tagged [bug, urgent] is stored: it is found under bug and under
\* urgent and not under feature.
TicketWithTwoTags ==
  /\ "t1" \in DOMAIN tickets
  /\ tickets["t1"].tags = <<"bug", "urgent">>
  /\ tickets["t1"] \in Range(getTicketsByTag("bug"))
  /\ tickets["t1"] \in Range(getTicketsByTag("urgent"))
  /\ tickets["t1"] \notin Range(getTicketsByTag("feature"))
  /\ "d1" \in DOMAIN documents
  /\ documents["d1"].tags = <<"bug", "urgent">>

\* C8: for every folder id or null, getDocumentsByFolder(f) returns exactly
\* the stored documents whose folderId is f and getFoldersByParent(f) exactly
\* the stored folders whose parentId is f; null gives the root-level records.
FolderLookupCoversRoot ==
  \A f \in FolderIds \cup {NULL} :
    /\ Range(getDocumentsByFolder(f))
         = { d \in Range(getAllDocuments) : d.folderId = f }
    /\ Range(getFoldersByParent(f))
         = { x \in Range(getAllFolders) : x.parentId = f }

DeletePost(before, after, l) ==
  /\ l.ok
  /\ Get(after, l.arg) = Undefined
  /\ \A k \in DOMAIN before \ {l.arg} : Get(after, k) = before[k]
  /\ l.arg \notin DOMAIN before => UNCHANGED <<documents, folders, tickets, index>>

\* C9: after deleteDocument/deleteFolder/deleteTicket(id) the matching get(id)
\* is undefined; deleting an id that is not stored succeeds and leaves the
\* store unchanged.
DeletionFinality ==
  [][ /\ (last'.op = "deleteDocument" => DeletePost(documents, documents', last'))
      /\ (last'.op = "deleteFolder" => DeletePost(folders, folders', last'))
      /\ (last'.op = "deleteTicket" => DeletePost(tickets, tickets', last')) ]_vars

\* deleteTicket(id) has just run a second time in a row.
TicketDeletedTwice ==
  /\ last.op = "deleteTicket"
  /\ last.again
  /\ ~last.had
  /\ last.ok
  /\ getTicket(last.arg) = Undefined

\* C10: a put of the identical record right after a put of it leaves the
\* content of getAll() of that collection as the first put left it.
UpsertIdempotent ==
  [][ /\ (last'.op = "saveDocument" /\ last'.again) => GetAll(documents') = getAllDocuments
      /\ (last'.op = "saveFolder" /\ last'.again) => GetAll(folders') = getAllFolders
      /\ (last'.op = "updateTicket" /\ last'.again) => GetAll(tickets') = getAllTickets ]_vars

\* The same ticket has been put twice in a row.
TicketPutTwice ==
  /\ last.op = "updateTicket"
  /\ last.again
  /\ last.arg \in Range(getAllTickets)

(***************************************************************************)
(* Properties of the workspace transfer (SpecTransfer).                    *)
(***************************************************************************)

\* C3: importing the result of exportWorkspace into an empty store yields a
\* store whose getAllDocuments and getAllFolders hold the same records as the
\* store the snapshot was exported from.
RoundTripTransfer ==
  ( /\ last.op = "importWorkspace" /\ last.arg = "snapshot" /\ last.ok
    /\ ~last.had
    /\ source.pc = "read"
    /\ Free )
  => /\ Range(getAllDocuments) = Range(GetAll(source.documents))
     /\ Range(getAllFolders) = Range(GetAll(source.folders))

\* A snapshot of two documents and two folders has been imported into an
\* empty store.
RoundTripDone ==
  /\ last.op = "importWorkspace" /\ last.arg = "snapshot" /\ last.ok
  /\ ~last.had
  /\ Free
  /\ Len(snapshot.documents) = 2
  /\ Len(snapshot.folders) = 2
  /\ DOMAIN documents = DocIds
  /\ tickets = EmptyStore

\* The record of the snapshot that is written last under key k.
LastWithId(records, k) ==
  LET at == { i \in DOMAIN records : records[i].id = k }
  IN records[CHOOSE i \in at : \A j \in at : j <= i]

NoneRemoved(before, after) ==
  \A k \in DOMAIN before : k \in DOMAIN after

MergedInto(before, after, records) ==
  LET ids == { r.id : r \in Range(records) }
  IN /\ DOMAIN after = DOMAIN before \cup ids
     /\ \A k \in DOMAIN after :
          after[k] = IF k \in ids THEN LastWithId(records, k) ELSE before[k]

\* C4: importWorkspace never removes a record and leaves every ticket as it
\* is; when it completes, the stored documents and folders whose id occurs in
\* the snapshot hold the snapshot's record, the snapshot's new ids are added,
\* and every other document and folder is as it was before the import.
MergingImport ==
  [][ /\ (tx.pc = "running" \/ tx'.pc = "running") =>
           /\ tickets' = tickets
           /\ NoneRemoved(documents, documents')
           /\ NoneRemoved(folders, folders')
      /\ (tx.pc = "running" /\ tx'.pc = "none") =>
           /\ MergedInto(tx.undo.documents, documents', tx.data.documents)
           /\ MergedInto(tx.undo.folders, folders', tx.data.folders) ]_vars

\* Every put of an import is applied: it overwrote document d1, left
\* document d2 alone and added folder f2.
ImportMerged ==
  /\ tx.pc = "running"
  /\ tx.folders = <<>> /\ tx.documents = <<>>
  /\ "d1" \in DOMAIN tx.undo.documents
  /\ documents["d1"] # tx.undo.documents["d1"]
  /\ "d2" \in DOMAIN tx.undo.documents
  /\ \A i \in DOMAIN tx.data.documents : tx.data.documents[i].id # "d2"
  /\ "f2" \in DOMAIN folders \ DOMAIN tx.undo.folders
  /\ tickets # EmptyStore

(***************************************************************************)
(* Properties of the ticket hook (SpecTickets).                            *)
(***************************************************************************)

\* C6: after any sequence of the hook's createTicket, updateTicket,
\* moveTicket and deleteTicket, getTicketsByStatus(s) returns exactly the
\* stored tickets whose status is s, for each of the four statuses.
StatusIndexCorrect ==
  \A st \in TicketStatus :
    Range(getTicketsByStatus(st)) = { t \in Range(getAllTickets) : t.status = st }

\* A ticket created as todo has been moved to in-review: it is returned for
\* in-review and no longer for todo.
TicketMovedToReview ==
  /\ last.op = "updateTicket" /\ last.ok /\ last.arg = "t1"
  /\ "t1" \in DOMAIN tickets
  /\ tickets["t1"].status = "in-review"
  /\ tickets["t1"] \in Range(getTicketsByStatus("in-review"))
  /\ tickets["t1"] \notin Range(getTicketsByStatus("todo"))
  /\ "t2" \in DOMAIN tickets
  /\ tickets["t2"] \in Range(getTicketsByStatus("todo"))

(***************************************************************************)
(* Ticket search (indexedDB.ts lines 397-406).                             *)
(***************************************************************************)
\* The characters of the strings used as ticket text and as queries.
Chars(s) ==
  CASE s = "" -> <<>>
    [] s = "Login" -> <<"L", "o", "g", "i", "n">>
    [] s = "Docs" -> <<"D", "o", "c", "s">>
    [] s = "ask ann" -> <<"a", "s", "k", " ", "a", "n", "n">>
    [] s = "Bug" -> <<"B", "u", "g">>
    [] s = "bug" -> <<"b", "u", "g">>
    [] s = "Ann" -> <<"A", "n", "n">>
    [] s = "Bob" -> <<"B", "o", "b">>
    [] s = "ann" -> <<"a", "n", "n">>
    [] s = "BUG" -> <<"B", "U", "G">>
    [] s = "log" -> <<"l", "o", "g">>

LowerOf == [A |-> "a", B |-> "b", D |-> "d", G |-> "g", L |-> "l", U |-> "u"]

\* String.prototype.toLowerCase, on the characters of the string.
toLowerCase(chars) ==
  [i \in DOMAIN chars |-> IF chars[i] \in DOMAIN LowerOf THEN LowerOf[chars[i]]
                          ELSE chars[i]]

\* String.prototype.includes: q occurs in s as a contiguous run.
includes(s, q) ==
  \E i \in 0..Len(s) : i + Len(q) <= Len(s) /\ SubSeq(s, i + 1, i + Len(q)) = q

\* searchTickets(query): getAllTickets filtered (Array.prototype.filter keeps
\* the order) on title, description and tags.
searchTickets(query) ==
  LET lowerQuery == toLowerCase(Chars(query))
  IN SelectSeq(getAllTickets,
            LAMBDA ticket :
              \/ includes(toLowerCase(Chars(ticket.title)), lowerQuery)
              \/ includes(toLowerCase(Chars(ticket.description)), lowerQuery)
              \/ \E i \in DOMAIN ticket.tags :
                   includes(toLowerCase(Chars(ticket.tags[i])), lowerQuery))

\* The tickets stored and the queries typed in the search model.
SearchTicketValues ==
  { [Ticket("t1", "Login", "todo", "high", <<"Bug">>, "Ann", 0, 0)
       EXCEPT !.description = ""],
    [Ticket("t1", "Docs", "todo", "low", <<>>, NULL, 0, 0)
       EXCEPT !.description = "ask ann"],
    [Ticket("t2", "Docs", "done", "low", <<"bug", "Ann">>, "Bob", 0, 0)
       EXCEPT !.description = ""],
    [Ticket("t2", "Login", "done", "low", <<>>, NULL, 0, 0)
       EXCEPT !.description = ""] }

QueryValues == {"", "ann", "BUG", "log", "Bob", "Docs"}

\* A caller awaits searchTickets(query): the result it got.
search(query) ==
  /\ db # NoDb
  /\ last' = Spread(Outcome("searchTickets", query, TRUE),
                    [result |-> searchTickets(query)])
  /\ UNCHANGED <<disk, conn, page, history, tx, snapshot, now, hook>>

NextSearch ==
  \/ \E ticket \in SearchTicketValues : updateTicket(ticket)
  \/ \E id \in TicketIds : deleteTicket(id)
  \/ \E query \in QueryValues : search(query)

SpecSearch == Init /\ [][NextSearch]_vars

(***************************************************************************)
(* Properties of the ticket search (SpecSearch).                           *)
(***************************************************************************)
\* The lower-cased query occurs in the lower-cased title, description, a tag
\* or the assignee of the ticket.
MatchesQuery(ticket, query) ==
  LET q == toLowerCase(Chars(query))
  IN \/ includes(toLowerCase(Chars(ticket.title)), q)
     \/ includes(toLowerCase(Chars(ticket.description)), q)
     \/ \E i \in DOMAIN ticket.tags : includes(toLowerCase(Chars(ticket.tags[i])), q)
     \/ ticket.assignee # NULL /\ includes(toLowerCase(Chars(ticket.assignee)), q)

\* C11: searchTickets(q) returns exactly the stored tickets whose lower-cased
\* title, description, one of the tags or assignee contains the lower-cased
\* query.
SearchCoversAllFields ==
  \A query \in QueryValues :
    Range(searchTickets(query))
      = { t \in Range(getAllTickets) : MatchesQuery(t, query) }

(***************************************************************************)
(* Properties of exportWorkspace (SpecTransfer).                           *)
(***************************************************************************)
ExportReturns == snapshot.pc = "documents" /\ snapshot'.pc = "done"

\* C12 as stated: the snapshot exportWorkspace returns holds exactly the
\* documents and exactly the folders that are stored when it returns.
ExportIsStoreAtReturn ==
  [][ ExportReturns =>
        /\ snapshot'.documents = GetAll(documents')
        /\ snapshot'.folders = GetAll(folders') ]_vars

\* C12: exportWorkspace leaves the three collections unchanged and returns a
\* snapshot without tickets whose documents are exactly the documents stored
\* at its first read and whose folders are exactly the folders stored at its
\* second read; when no write completed between the two reads these are the
\* stored documents and folders at its return.
ExportReadsEachStore ==
  [][ /\ (snapshot.pc = "none" /\ snapshot'.pc = "documents") =>
           /\ snapshot'.documents = GetAll(documents)
           /\ UNCHANGED disk
      /\ ExportReturns =>
           /\ snapshot'.documents = snapshot.documents
           /\ snapshot'.folders = GetAll(folders)
           /\ DOMAIN snapshot' = {"pc", "documents", "folders"}
           /\ \A r \in Range(snapshot'.documents) \cup Range(snapshot'.folders) :
                r \notin Range(getAllTickets)
           /\ UNCHANGED disk
           /\ source'.pc = "read" => snapshot'.documents = GetAll(documents') ]_vars

\* exportWorkspace has returned two documents and two folders of a store
\* that also holds tickets, with no write between its reads.
ExportedPopulatedStore ==
  /\ last.op = "exportWorkspace"
  /\ snapshot.pc = "done"
  /\ source.pc = "read"
  /\ Len(snapshot.documents) = 2
  /\ Len(snapshot.folders) = 2
  /\ snapshot.documents = getAllDocuments
  /\ tickets # EmptyStore

(***************************************************************************)
(* The document handlers of the Index page (src/unnamed/part_003, lines    *)
(* 338-503). A handler that reads before it writes computes the record in  *)
(* the continuation of its getDocument and issues saveDocument; `pending`  *)
(* holds the record until the put is applied.                              *)
(***************************************************************************)
\* String.prototype.trim on the titles and tags typed in the model.
trim(s) == IF s = " " THEN "" ELSE s

\* String.prototype.toLowerCase on the tags typed in the model.
LowerCased(s) == IF s = "Bug" THEN "bug" ELSE s

NewTitles == {" "}
NewTags == {"Bug"}

\* newDoc of handleNewDocument; createdAt and updatedAt are two Date.now()
\* calls, the second one `later`.
NewDocument(id, folderId, later) ==
  Document(id, "Untitled Document", folderId, <<>>, FALSE, now, later)

\* Variant: a new document stamped with the start of the epoch as updatedAt.
handleNewDocumentUnstamped(folderId, id) ==
  /\ db # NoDb /\ Free
  /\ id \notin DOMAIN documents
  /\ \A i \in DOMAIN pending : pending[i].id # id
  /\ \E later \in { t \in Clock : t = now \/ t = now + 1 } :
       /\ now' = later
       /\ documents' = Put(documents, [NewDocument(id, folderId, later)
                                         EXCEPT !.updatedAt = 0])
       /\ index' = IndexAfterWrite(index, "documents", id,
                                   [NewDocument(id, folderId, later)
                                      EXCEPT !.updatedAt = 0])
       /\ activeDocument' = [NewDocument(id, folderId, later) EXCEPT !.updatedAt = 0]
  /\ UNCHANGED <<version, objectStoreNames, folders, tickets, conn, saveTimeout,
                 sync, history, tx, snapshot, hook, last>>

\* handleNewDocument(folderId): saveDocument(newDoc); setActiveDocument(newDoc).
handleNewDocument(folderId, id) ==
  /\ db # NoDb /\ Free
  /\ id \notin DOMAIN documents
  /\ \A i \in DOMAIN pending : pending[i].id # id
  /\ \E later \in { t \in Clock : t = now \/ t = now + 1 } :
       /\ now' = later
       /\ documents' = Put(documents, NewDocument(id, folderId, later))
       /\ index' = IndexAfterWrite(index, "documents", id,
                                   NewDocument(id, folderId, later))
       /\ activeDocument' = NewDocument(id, folderId, later)
  /\ UNCHANGED <<version, objectStoreNames, folders, tickets, conn, saveTimeout,
                 sync, history, tx, snapshot, hook, last>>

\* The common shape of the read-then-write handlers: doc = await
\* getDocument(docId); if (doc) saveDocument({...doc, ...changes, updatedAt:
\* Date.now()}) is issued.
handleChange(op, docId, changes) ==
  /\ db # NoDb /\ Free
  /\ Len(pending) < MaxPending
  /\ getDocument(docId) # Undefined
  /\ pending' = Append(pending,
                       Spread(Spread(getDocument(docId), changes),
                              [updatedAt |-> now]))
  /\ UNCHANGED <<disk, conn, page, history, tx, snapshot, now, ticketsState, errorState,
                 last>>

handleRenameDocument(docId, newTitle) ==
  handleChange("handleRenameDocument", docId,
               [title |-> IF trim(newTitle) = "" THEN "Untitled" ELSE trim(newTitle)])

handleTogglePin(docId) ==
  /\ getDocument(docId) # Undefined
  /\ handleChange("handleTogglePin", docId,
                  [isPinned |-> ~getDocument(docId).isPinned])

\* handleSaveTag: nothing is saved when the document already has the tag.
handleSaveTag(docId, newTag) ==
  /\ getDocument(docId) # Undefined
  /\ trim(newTag) # ""
  /\ LowerCased(trim(newTag)) \notin Range(getDocument(docId).tags)
  /\ handleChange("handleSaveTag", docId,
                  [tags |-> Append(getDocument(docId).tags, LowerCased(trim(newTag)))])

handleMoveDocument(docId, folderId) ==
  handleChange("handleMoveDocument", docId, [folderId |-> folderId])

\* updateDocumentContent on the document selected from the sidebar; the
\* auto-save timer holds the updated record.
editSelectedDocument(docId, newContent) ==
  handleChange("updateDocumentContent", docId, [content |-> newContent])

\* The saveDocument a handler issued is applied.
handlerSave ==
  /\ pending # <<>>
  /\ "content" \in DOMAIN Head(pending)
  /\ documents' = Put(documents, Head(pending))
  /\ index' = IndexAfterWrite(index, "documents", Head(pending).id, Head(pending))
  /\ pending' = Tail(pending)
  /\ UNCHANGED <<version, objectStoreNames, folders, tickets, conn, page, history, tx,
                 snapshot, now, ticketsState, errorState, last>>

NextPage ==
  \/ Tick
  \/ \E d \in TicketDataValues : hook_createTicket(d, "t1")
  \/ \E u \in UpdateValues : hook_updateTicket("t1", u)
  \/ hook_moveTicket("t1", "in-review")
  \/ hook_updateTicketWrite
  \/ handleNewDocument(NULL, "d1")
  \/ \E t \in NewTitles : handleRenameDocument("d1", t)
  \/ handleTogglePin("d1")
  \/ \E t \in NewTags : handleSaveTag("d1", t)
  \/ handleMoveDocument("d1", "f2")
  \/ editSelectedDocument("d1", "x")
  \/ handlerSave

SpecPage == InitTickets /\ [][NextPage]_vars

(***************************************************************************)
(* Properties of the timestamps (SpecPage, SpecTickets).                   *)
(***************************************************************************)
Stamped(content) == \A k \in DOMAIN content : content[k].updatedAt >= content[k].createdAt

\* C13: with a clock that never goes back, every stored ticket and document
\* has updatedAt >= createdAt after any sequence of ticket create, update and
\* move and document create, rename, pin, tag, move and edit; and each of
\* these mutations stamps the record it saves with the time at which it ran
\* (a creation with that time as createdAt too, for a ticket).
TimestampInvariant ==
  /\ [](Stamped(tickets) /\ Stamped(documents))
  /\ [][ /\ Len(pending') = Len(pending) + 1 =>
              /\ pending'[Len(pending')].updatedAt = now
              /\ pending'[Len(pending')].createdAt
                   = IF "status" \in DOMAIN pending'[Len(pending')]
                     THEN tickets[pending'[Len(pending')].id].createdAt
                     ELSE documents[pending'[Len(pending')].id].createdAt
         /\ Len(pending') = Len(pending) - 1 =>
              Head(pending) = IF "status" \in DOMAIN Head(pending)
                              THEN tickets'[Head(pending).id]
                              ELSE documents'[Head(pending).id]
         /\ \A k \in DOMAIN tickets' \ DOMAIN tickets :
              k \notin { pending[i].id : i \in DOMAIN pending } =>
                tickets'[k].createdAt = now /\ tickets'[k].updatedAt = now
         /\ \A k \in DOMAIN documents' \ DOMAIN documents :
              k \notin { pending[i].id : i \in DOMAIN pending } =>
                documents'[k].createdAt = now /\ documents'[k].updatedAt = now' ]_vars

\* A ticket and a document created at time 0 have both been changed at time 1.
StampedLater ==
  /\ "t1" \in DOMAIN tickets
  /\ tickets["t1"].createdAt = 0 /\ tickets["t1"].updatedAt = 1
  /\ tickets["t1"].status = "in-review"
  /\ "d1" \in DOMAIN documents
  /\ documents["d1"].createdAt = 0 /\ documents["d1"].updatedAt = 1
  /\ documents["d1"].title = "Untitled"
  /\ documents["d1"].isPinned
  /\ documents["d1"].tags = <<"bug">>
  /\ documents["d1"].folderId = "f2"
  /\ documents["d1"].content = "x"

\* A ticket enters the store by the hook's createTicket.
TicketCreated(k) ==
  /\ k \in DOMAIN tickets' \ DOMAIN tickets
  /\ k \notin { pending[i].id : i \in DOMAIN pending }

\* The write of a hook updateTicket or moveTicket lands on a stored ticket.
TicketUpdated(k) ==
  /\ Len(pending') = Len(pending) - 1
  /\ k = Head(pending).id
  /\ k \in DOMAIN tickets

\* C14 as stated: a ticket is created with createdAt = updatedAt, and a
\* later updateTicket or moveTicket leaves createdAt and id unchanged and
\* makes updatedAt strictly greater than its previous value.
UpdatedAtStrictlyIncreases ==
  [][ \A k \in TicketIds :
        /\ TicketCreated(k) => tickets'[k].createdAt = tickets'[k].updatedAt
        /\ TicketUpdated(k) =>
             /\ tickets'[k].createdAt = tickets[k].createdAt
             /\ tickets'[k].id = k
             /\ tickets'[k].updatedAt > tickets[k].updatedAt ]_vars

\* C14: a ticket is created with createdAt = updatedAt, and a later
\* updateTicket or moveTicket leaves createdAt and id unchanged and sets
\* updatedAt to the time at which it ran, which is never less than the
\* previous value (the clock never going back).
UpdatedAtNeverDecreases ==
  [][ /\ \A k \in TicketIds :
           /\ TicketCreated(k) =>
                /\ tickets'[k].createdAt = tickets'[k].updatedAt
                /\ tickets'[k].updatedAt = now
           /\ TicketUpdated(k) =>
                /\ tickets'[k].createdAt = tickets[k].createdAt
                /\ tickets'[k].id = k
                /\ tickets'[k].updatedAt >= tickets[k].updatedAt
      /\ Len(pending') = Len(pending) + 1 =>
           pending'[Len(pending')].updatedAt = now ]_vars

\* A ticket created at time 0 has been updated at time 1, by an update whose
\* payload carried another id.
TicketUpdatedLater ==
  /\ last.op = "updateTicket" /\ last.ok /\ last.arg = "t1"
  /\ "t1" \in DOMAIN tickets
  /\ tickets["t1"].createdAt = 0
  /\ tickets["t1"].updatedAt = 1
  /\ tickets["t1"].priority = "low"
  /\ tickets["t1"].id = "t1"

\* What a rejected update of a missing ticket leaves: the "Ticket not found"
\* message, which no failed request produces, and nothing written or issued.
NotFoundPost(id) ==
  /\ errorState' = "Ticket not found"
  /\ errorState' # requestError
  /\ last' = Outcome("updateTicket", id, FALSE)
  /\ UNCHANGED <<disk, pending, ticketsState>>

\* C15: updateTicket(id, updates) and moveTicket(id, status) for an id that
\* is not in the tickets collection fail with the "Ticket not found" error,
\* distinct from the error of a failed request, issue no write and leave the
\* store unchanged: no record is created.
UpdateOfMissingFails ==
  [][ \A id \in TicketIds :
        id \notin DOMAIN tickets =>
          /\ \A u \in UpdateValues : hook_updateTicket(id, u) => NotFoundPost(id)
          /\ \A st \in TicketStatus : hook_moveTicket(id, st) => NotFoundPost(id) ]_vars

\* An update of ticket t2, which is not stored, has just been rejected while
\* t1 is stored.
MissingTicketRejected ==
  /\ last = Outcome("updateTicket", "t2", FALSE)
  /\ errorState = "Ticket not found"
  /\ "t2" \notin DOMAIN tickets
  /\ "t1" \in DOMAIN tickets
  /\ pending = <<>>

(***************************************************************************)
(* Failing requests (indexedDB.ts: every operation wraps one IDBRequest in *)
(* a promise, onsuccess -> resolve(request.result), onerror ->             *)
(* reject(request.error)).                                                 *)
(***************************************************************************)
RequestOutcome == {"success", "error"}

\* Variant: a promise that resolves with an empty list when the request fails.
SettleSwallowing(outcome, result) ==
  IF outcome = "success" THEN [ok |-> TRUE, value |-> result]
  ELSE [ok |-> TRUE, value |-> <<>>]

\* The promise around a request, once settled.
Settle(outcome, result) ==
  IF outcome = "success" THEN [ok |-> TRUE, value |-> result]
  ELSE [ok |-> FALSE, reason |-> requestError]

\* The read operations called in the model, each with its argument.
ReadCalls ==
  { <<"getDocument", "d1">>, <<"getTicket", "t1">>,
    <<"getAllFolders", NULL>>, <<"getAllTickets", NULL>>,
    <<"getDocumentsByTag", "urgent">>, <<"getFoldersByParent", "f2">>,
    <<"getTicketsByStatus", "todo">>, <<"searchTickets", "log">> }

\* request.result of the request a read operation issues (searchTickets:
\* what it computes from the result of its getAllTickets).
ReadResult(op, arg) ==
  CASE op = "getDocument" -> getDocument(arg)
    [] op = "getFolder" -> getFolder(arg)
    [] op = "getTicket" -> getTicket(arg)
    [] op = "getAllDocuments" -> getAllDocuments
    [] op = "getAllFolders" -> getAllFolders
    [] op = "getAllTickets" -> getAllTickets
    [] op = "getDocumentsByFolder" -> getDocumentsByFolder(arg)
    [] op = "getDocumentsByTag" -> getDocumentsByTag(arg)
    [] op = "getFoldersByParent" -> getFoldersByParent(arg)
    [] op = "getTicketsByStatus" -> getTicketsByStatus(arg)
    [] op = "getTicketsByPriority" -> getTicketsByPriority(arg)
    [] op = "getTicketsByTag" -> getTicketsByTag(arg)
    [] op = "searchTickets" -> searchTickets(arg)

\* A read operation is called and its request succeeds or fails.
read(op, arg, outcome) ==
  /\ db # NoDb
  /\ last' = Spread([op |-> op, arg |-> arg, request |-> outcome,
                     had |-> FALSE, again |-> FALSE],
                    Settle(outcome, ReadResult(op, arg)))
  /\ UNCHANGED <<disk, conn, page, history, tx, snapshot, now, hook>>

FaultDocument == Document("d1", "Notes", "f1", <<"urgent">>, FALSE, 0, 0)
FaultFolder == Folder("f1", "Work", "f2", 0)
FaultTickets == { t \in SearchTicketValues : t.id = "t1" }

\* The write operations called in the model, each with its argument.
WriteCalls ==
  { <<"saveDocument", FaultDocument>>, <<"deleteDocument", "d1">>,
    <<"saveFolder", FaultFolder>>, <<"deleteFolder", "f1">> }
  \cup { <<"createTicket", t>> : t \in FaultTickets }
  \cup { <<"updateTicket", t>> : t \in FaultTickets }
  \cup { <<"deleteTicket", "t1">> }

\* The put, add or delete request of a write operation fails: nothing is
\* written.
writeFails(op, arg) ==
  /\ db # NoDb /\ Free
  /\ last' = Spread([op |-> op, arg |-> arg, request |-> "error",
                     had |-> FALSE, again |-> FALSE],
                    Settle("error", Undefined))
  /\ UNCHANGED <<disk, conn, page, history, tx, snapshot, now, hook>>

\* The page from its load: no database yet, nothing opened.
InitFaults ==
  /\ version = 0
  /\ objectStoreNames = {}
  /\ documents = EmptyStore
  /\ folders = EmptyStore
  /\ tickets = EmptyStore
  /\ index = <<>>
  /\ ConnInit
  /\ Quiet
  /\ origin = [version |-> 0, documents |-> EmptyStore, folders |-> EmptyStore]

NextFaults ==
  \/ NextOpen
  \/ \E c \in ReadCalls, outcome \in RequestOutcome : read(c[1], c[2], outcome)
  \/ \E c \in WriteCalls : writeFails(c[1], c[2])
  \/ saveDocument(FaultDocument)
  \/ saveFolder(FaultFolder)
  \/ \E ticket \in FaultTickets : updateTicket(ticket)
  \/ deleteTicket("t1")

SpecFaults == InitFaults /\ [][NextFaults]_vars

(***************************************************************************)
(* Properties of failing requests (SpecFaults).                            *)
(***************************************************************************)
RequestFailed(l) == "request" \in DOMAIN l /\ l.request = "error"

\* C16: every store operation whose request fails (the open request, a put,
\* add, get, getAll, index lookup or delete, the getAll under a search)
\* rejects to its caller with the request's error; none resolves, so no
\* failure looks like an empty list or undefined.
ErrorsPropagate ==
  /\ [](RequestFailed(last) =>
          /\ ~last.ok
          /\ "value" \notin DOMAIN last
          /\ last.reason = requestError)
  /\ [][ (requests # <<>> /\ requests' = Tail(requests) /\ db' = db) =>
           caller'[requests[1].caller] = [pc |-> "rejected", conn |-> NoDb] ]_vars

\* getAllTickets has just failed on a store that holds a ticket, after an
\* open attempt of the page had failed as well.
ReadOfPopulatedStoreFailed ==
  /\ last.op = "getAllTickets"
  /\ RequestFailed(last)
  /\ ~last.ok
  /\ tickets # EmptyStore
  /\ \E c \in Callers : caller[c].pc = "rejected"

(***************************************************************************)
(* Properties of a failing import (SpecImport).                            *)
(***************************************************************************)
\* The records of a list up to the first one without an id.
ValidPrefix(records) ==
  LET bad == { i \in DOMAIN records : "id" \notin DOMAIN records[i] }
  IN IF bad = {} THEN records
     ELSE SubSeq(records, 1, (CHOOSE i \in bad : \A j \in bad : i <= j) - 1)

Malformed(data) ==
  \/ "folders" \notin DOMAIN data
  \/ "documents" \notin DOMAIN data
  \/ ValidPrefix(data.folders) # data.folders
  \/ ValidPrefix(data.documents) # data.documents

\* An import ends in this step.
ImportEnds == tx.pc = "running" /\ tx'.pc = "none"

\* The folders and the documents a malformed file gets written before
\* importWorkspace throws.
FoldersBeforeThrow(data) == ValidPrefix(Field(data, "folders"))
DocumentsBeforeThrow(data) ==
  IF "folders" \in DOMAIN data /\ FoldersBeforeThrow(data) = data.folders
  THEN ValidPrefix(Field(data, "documents")) ELSE <<>>

\* C17: importWorkspace of a snapshot that lacks the folders or documents
\* field, or holds a record without an id, rejects; it writes nothing after
\* the failing step and rolls back nothing: the records before the failing
\* step are merged into the store (all the folders when only the documents
\* field is missing) and with no folders field the store is unchanged.
MalformedImportRejects ==
  [][ (ImportEnds /\ Malformed(tx.data)) =>
        /\ ~last'.ok
        /\ last'.reason # requestError =>
             /\ UNCHANGED disk
             /\ MergedInto(tx.undo.folders, folders', FoldersBeforeThrow(tx.data))
             /\ MergedInto(tx.undo.documents, documents',
                           DocumentsBeforeThrow(tx.data))
             /\ "folders" \notin DOMAIN tx.data =>
                  folders' = tx.undo.folders /\ documents' = tx.undo.documents
             /\ DOMAIN tx.data = {"folders"} =>
                  MergedInto(tx.undo.folders, folders', tx.data.folders) ]_vars

\* The import of a file with two folders and no documents field has been
\* rejected, and the two folders are in the store.
FoldersKeptAfterThrow ==
  /\ last.op = "importWorkspace" /\ ~last.ok
  /\ last.reason = "TypeError"
  /\ last.applied = 2
  /\ last.changed
  /\ "f2" \in DOMAIN folders /\ folders["f2"].name = "Sub"
  /\ tx.pc = "none"

\* The storage layer fails a put of importWorkspace in this step.
PutFailsInImport == ImportEnds /\ last'.reason = requestError

\* C18 as stated: when the put of the k-th record fails at the storage
\* layer, the import rejects and the k-1 records put before it remain in the
\* store.
PartialImportRemains ==
  [][ PutFailsInImport =>
        /\ ~last'.ok
        /\ documents' = documents
        /\ folders' = folders ]_vars

\* C18: the puts of importWorkspace run in one transaction over documents
\* and folders; when the put of the k-th record fails at the storage layer,
\* the import rejects and the transaction aborts: the k-1 records put before
\* it are reverted and the store is as it was before the import.
FailedPutRollsBack ==
  [][ PutFailsInImport =>
        /\ ~last'.ok
        /\ documents' = tx.undo.documents
        /\ folders' = tx.undo.folders
        /\ tickets' = tickets
        /\ index' = IndexOfContent("documents", documents')
                      @@ IndexOfContent("folders", folders')
                      @@ IndexOfContent("tickets", tickets') ]_vars

\* The third put of an import has failed after two puts that had changed
\* the store, and the folder they added is gone.
ImportRolledBack ==
  /\ last.op = "importWorkspace" /\ ~last.ok
  /\ last.reason = requestError
  /\ last.applied = 2
  /\ last.changed
  /\ "f2" \notin DOMAIN folders
  /\ tx.pc = "none"

(***************************************************************************)
(* Properties of the connection and of the persisted layout (SpecOpen).    *)
(***************************************************************************)

\* C19: the connection goes Unopened -> Opening -> Open or Opening -> Failed;
\* once the handle is set it never changes and no further open attempt is
\* made, every initDB from then on resolving with that same connection; a
\* failed attempt leaves the handle unset, and an initDB that finds it unset
\* issues a fresh open attempt.
ConnectionLifecycle ==
  [][ /\ db # NoDb => (db' = db /\ opened' = opened)
      /\ \A c \in Callers :
           /\ (caller[c].pc = "idle" /\ caller'[c].pc = "resolved") =>
                (db # NoDb /\ caller'[c].conn = db)
           /\ (caller[c].pc = "idle" /\ caller'[c].pc = "waiting") =>
                (db = NoDb /\ opened' = opened + 1)
           /\ (caller[c].pc = "waiting" /\ caller'[c].pc = "rejected") =>
                db' = db ]_vars

\* The documented indexes: collection, index name, multi-valued or not.
DocumentedIndexes ==
  { <<"documents", "folderId", FALSE>>, <<"documents", "tags", TRUE>>,
    <<"documents", "isPinned", FALSE>>, <<"documents", "updatedAt", FALSE>>,
    <<"folders", "parentId", FALSE>>,
    <<"tickets", "status", FALSE>>, <<"tickets", "priority", FALSE>>,
    <<"tickets", "tags", TRUE>>, <<"tickets", "assignee", FALSE>>,
    <<"tickets", "updatedAt", FALSE>>, <<"tickets", "createdAt", FALSE>> }

StoredIndexes ==
  { <<p[1], p[2], IndexDef(p[1], p[2]).multiEntry>> : p \in DOMAIN index }

KeyedById(content) == \A k \in DOMAIN content : content[k].id = k

\* C20: once an initDB has succeeded, from no store or from a version-1 store
\* of documents and folders, the store is at version 2 and holds exactly the
\* collections documents, folders and tickets, keyed by id, with exactly the
\* documented indexes; and the stored version never decreases.
PersistedLayout ==
  /\ [](db # NoDb =>
          /\ version = 2
          /\ objectStoreNames = {"documents", "folders", "tickets"}
          /\ StoredIndexes = DocumentedIndexes
          /\ KeyedById(documents) /\ KeyedById(folders) /\ KeyedById(tickets))
  /\ [][version' >= version]_vars

\* A version-1 store holding documents and folders was opened successfully.
OpenedFromVersion1 ==
  /\ db # NoDb
  /\ origin.version = 1
  /\ DOMAIN documents # {}
  /\ DOMAIN folders # {}

(***************************************************************************)
(* Sync PR Status (src/src/pages/Tickets.tsx, handleSyncPRStatus, lines    *)
(* 232-288; src/src/hooks/useGitHub.ts, lines 110-142). The handler walks  *)
(* the `tickets` list its closure captured and awaits, per ticket, the PR  *)
(* details and then moveTicket; the board stays usable meanwhile.          *)
(***************************************************************************)
PRStatus == {"open", "closed", "merged"}

\* Variant: a closed pull request counted as done.
mapPRStatusClosedIsDone(prStatus) ==
  CASE prStatus = "open" -> "in-review"
    [] OTHER -> "done"

mapPRStatusToTicketStatus(prStatus) ==
  CASE prStatus = "open" -> "in-review"
    [] prStatus = "merged" -> "done"
    [] prStatus = "closed" -> "todo"
    [] OTHER -> "in-progress"

\* The tickets on the board in the model: one with two linked pull requests,
\* one with none.
SyncTicketValues ==
  { [Ticket("t1", "Fix login bug", "todo", "high", <<"bug">>, "ann", 0, 0)
       EXCEPT !.linkedPRs = <<"pr/1", "pr/2">>],
    Ticket("t2", "Write docs", "in-progress", "low", <<>>, NULL, 0, 0) }

\* The statuses the user drags a ticket to in the model.
DragTargets == {"in-review", "done"}

InitSync ==
  /\ Opened
  /\ documents = EmptyStore
  /\ folders = EmptyStore
  /\ tickets = [k \in TicketIds |-> CHOOSE t \in SyncTicketValues : t.id = k]
  /\ index = [p \in AllIndexes |-> {}] @@ IndexOfContent("tickets", tickets)
  /\ origin = [version |-> DB_VERSION, documents |-> EmptyStore, folders |-> EmptyStore]
  /\ Quiet

\* refreshTickets (run on mount and after each hook operation).
refreshTickets ==
  /\ db # NoDb
  /\ ticketsState' = Refreshed(tickets)
  /\ errorState' = NULL
  /\ UNCHANGED <<disk, conn, page, history, tx, snapshot, now, pending, last>>

\* handleSyncPRStatus is called: it returns at once when not authenticated,
\* else starts its loop over the `tickets` of its closure.
handleSyncPRStatus(authenticated) ==
  /\ db # NoDb
  /\ sync.pc = "idle"
  /\ sync' = [pc |-> IF authenticated THEN "loop" ELSE "done",
              authenticated |-> authenticated,
              tickets |-> ticketsState, i |-> 1, details |-> <<>>,
              syncCount |-> 0, before |-> tickets]
  /\ UNCHANGED <<disk, conn, activeDocument, saveTimeout, history, tx, snapshot,
                 now, hook, last>>

\* One turn of the loop up to the write of its moveTicket: a ticket without
\* linked PRs is passed over; else getPRDetails(linkedPRs[0]) gives the PR
\* (`result` its status) or null; when the mapped status differs from the
\* listed ticket's, moveTicket reads the stored ticket (hook updateTicket:
\* "Ticket not found" when it is missing, which ends the sync in its catch).
getPRDetails(result) ==
  /\ sync.pc = "loop"
  /\ sync.i <= Len(sync.tickets)
  /\ LET ticket == sync.tickets[sync.i]
         newStatus == mapPRStatusToTicketStatus(result)
         fetched == [sync EXCEPT !.details = (ticket.id :> result) @@ @]
     IN IF Len(ticket.linkedPRs) = 0
        THEN /\ result = NULL
             /\ sync' = [sync EXCEPT !.i = @ + 1]
             /\ UNCHANGED errorState
        ELSE IF result = NULL \/ newStatus = ticket.status
        THEN /\ sync' = [fetched EXCEPT !.i = @ + 1]
             /\ UNCHANGED errorState
        ELSE IF getTicket(ticket.id) = Undefined
        THEN /\ sync' = [fetched EXCEPT !.pc = "failed"]
             /\ errorState' = "Ticket not found"
        ELSE /\ sync' = Spread(fetched,
                   [pc |-> "move",
                    updatedTicket |-> Spread(getTicket(ticket.id),
                        [status |-> newStatus, id |-> ticket.id,
                         updatedAt |-> now])])
             /\ UNCHANGED errorState
  /\ UNCHANGED <<disk, conn, activeDocument, saveTimeout, history, tx, snapshot,
                 now, pending, ticketsState, last>>

\* The write of the sync's moveTicket: updateTicketDB, refreshTickets,
\* syncCount++.
sync_moveTicket ==
  /\ sync.pc = "move"
  /\ tickets' = Put(tickets, sync.updatedTicket)
  /\ index' = IndexAfterWrite(index, "tickets", sync.updatedTicket.id,
                              sync.updatedTicket)
  /\ ticketsState' = Refreshed(tickets')
  /\ errorState' = NULL
  /\ sync' = [f \in DOMAIN sync \ {"updatedTicket"} |->
                CASE f = "pc" -> "loop"
                  [] f = "i" -> sync.i + 1
                  [] f = "syncCount" -> sync.syncCount + 1
                  [] OTHER -> sync[f]]
  /\ UNCHANGED <<version, objectStoreNames, documents, folders, conn,
                 activeDocument, saveTimeout, history, tx, snapshot, now,
                 pending, last>>

\* The loop is over: refreshTickets when anything was moved.
syncCompletes ==
  /\ sync.pc = "loop"
  /\ sync.i > Len(sync.tickets)
  /\ sync' = [sync EXCEPT !.pc = "done"]
  /\ IF sync.syncCount > 0
     THEN ticketsState' = Refreshed(tickets) /\ errorState' = NULL
     ELSE UNCHANGED <<ticketsState, errorState>>
  /\ UNCHANGED <<disk, conn, activeDocument, saveTimeout, history, tx, snapshot,
                 now, pending, last>>

\* No sync is between its start and its end.
NoSyncRunning == sync.pc \in {"idle", "done", "failed"}

\* The sync with the board around it: tickets are dragged and deleted
\* between syncs, and a sync starts when no drag is awaiting its write; a
\* ticket may be deleted at any time.
NextSync ==
  \/ refreshTickets
  \/ \E a \in BOOLEAN : pending = <<>> /\ handleSyncPRStatus(a)
  \/ \E r \in PRStatus \cup {NULL} : getPRDetails(r)
  \/ sync_moveTicket
  \/ syncCompletes
  \/ \E id \in TicketIds, st \in DragTargets :
        NoSyncRunning /\ hook_moveTicket(id, st)
  \/ hook_updateTicketWrite
  \/ \E id \in TicketIds : hook_deleteTicket(id)

SpecSync == InitSync /\ [][NextSync]_vars

\* What the claim asks of the tickets when an authenticated sync is over.
SyncedStatus(id) ==
  IF id \in DOMAIN sync.details /\ sync.details[id] # NULL
  THEN CASE sync.details[id] = "open" -> "in-review"
         [] sync.details[id] = "merged" -> "done"
         [] sync.details[id] = "closed" -> "todo"
  ELSE sync.before[id].status

DistinctIds(records) ==
  \A i, j \in DOMAIN records : records[i].id = records[j].id => i = j

\* C23: in every reachable state each collection holds at most one record
\* per id, stored under that id; and createTicket is insert-only: on an id
\* that is already stored it rejects and leaves the store as it was, on a new
\* id it stores the ticket.
IdsUnique ==
  /\ [](/\ KeyedById(documents) /\ DistinctIds(getAllDocuments)
        /\ KeyedById(folders) /\ DistinctIds(getAllFolders)
        /\ KeyedById(tickets) /\ DistinctIds(getAllTickets)
        /\ Len(getAllTickets) = Cardinality(DOMAIN tickets))
  /\ [][ last'.op = "createTicket" =>
           IF last'.arg.id \in DOMAIN tickets
           THEN ~last'.ok /\ tickets' = tickets /\ index' = index
           ELSE last'.ok /\ tickets' = Put(tickets, last'.arg) ]_vars

\* A createTicket on a stored id was rejected, the stored ticket being
\* another record than the one passed.
CreateOnStoredIdRejected ==
  /\ last.op = "createTicket"
  /\ ~last.ok
  /\ last.arg.id \in DOMAIN tickets
  /\ tickets[last.arg.id] # last.arg

(***************************************************************************)
(* The editor of the Index page (src/unnamed/part_003, lines 313-352,      *)
(* 376-386, 491-503): the active document, the one debounce timer of       *)
(* autoSave (saveTimeoutRef) and the handlers that select, edit and delete.*)
(***************************************************************************)
TypedTitles == {"Plan"}
TypedContents == {"x"}

\* A page opened over a store that holds two documents.
InitEditor ==
  /\ Opened
  /\ documents = [k \in DocIds |->
       CHOOSE d \in DocumentValues : d.id = k /\ d.updatedAt = d.createdAt]
  /\ folders = EmptyStore
  /\ tickets = EmptyStore
  /\ index = [p \in AllIndexes |-> {}] @@ IndexOfContent("documents", documents)
  /\ origin = [version |-> DB_VERSION, documents |-> documents, folders |-> EmptyStore]
  /\ Quiet

\* handleDocumentSelect(doc), doc a document of the sidebar's list (loaded
\* from the store): setActiveDocument(doc). The timer is left alone.
handleDocumentSelect(doc) ==
  /\ db # NoDb
  /\ activeDocument' = doc
  /\ UNCHANGED <<disk, conn, saveTimeout, sync, history, tx, snapshot, now, hook, last>>

\* autoSave(updated) as the edit handlers call it: clearTimeout of the
\* pending timer, setTimeout of a new one that holds `updated`.
edit(changes) ==
  /\ db # NoDb
  /\ activeDocument # NoDocument
  /\ LET updated == Spread(Spread(activeDocument, changes), [updatedAt |-> now])
     IN /\ activeDocument' = updated
        /\ saveTimeout' = updated
  /\ UNCHANGED <<disk, conn, sync, history, tx, snapshot, now, hook, last>>

updateDocumentTitle(newTitle) == edit([title |-> newTitle])

updateDocumentContent(newContent) == edit([content |-> newContent])

\* The timer fires, 500 ms after the last edit: saveDocument(doc).
autoSaveFires ==
  /\ db # NoDb /\ Free
  /\ saveTimeout # NoDocument
  /\ documents' = Put(documents, saveTimeout)
  /\ index' = IndexAfterWrite(index, "documents", saveTimeout.id, saveTimeout)
  /\ saveTimeout' = NoDocument
  /\ UNCHANGED <<version, objectStoreNames, folders, tickets, conn, activeDocument,
                 sync, history, tx, snapshot, now, hook, last>>

\* handleDeleteDocument(docId): deleteDocument(docId); setActiveDocument(null)
\* when it was the active one. The timer is left alone.
handleDeleteDocument(docId) ==
  /\ db # NoDb /\ Free
  /\ documents' = Delete(documents, docId)
  /\ index' = IndexAfterWrite(index, "documents", docId, Undefined)
  /\ activeDocument' = IF activeDocument # NoDocument /\ activeDocument.id = docId
                       THEN NoDocument ELSE activeDocument
  /\ UNCHANGED <<version, objectStoreNames, folders, tickets, conn, saveTimeout,
                 sync, history, tx, snapshot, now, hook, last>>

NextEditor ==
  \/ \E doc \in Range(getAllDocuments) : handleDocumentSelect(doc)
  \/ \E t \in TypedTitles : updateDocumentTitle(t)
  \/ \E c \in TypedContents : updateDocumentContent(c)
  \/ autoSaveFires
  \/ \E id \in DocIds : handleDeleteDocument(id)
  \/ \E id \in DocIds : handleNewDocument(NULL, id)
  \/ Tick

SpecEditor == InitEditor /\ [][NextEditor]_vars

(***************************************************************************)
(* Properties of the editor (SpecEditor).                                  *)
(***************************************************************************)
\* C22: auto-save never loses an edit: the record an edit handed to the
\* timer stays pending until it is saved or a later edit of the same document
\* takes its place, and it is saved at once when the user switches to another
\* document (the edits of a document that has been deleted aside).
AutoSaveNeverLoses ==
  [][ (saveTimeout # NoDocument /\ saveTimeout.id \in DOMAIN documents') =>
        /\ saveTimeout' # saveTimeout =>
             \/ documents'[saveTimeout.id] = saveTimeout
             \/ saveTimeout'.id = saveTimeout.id
        /\ (activeDocument' # NoDocument /\ activeDocument'.id # saveTimeout.id) =>
             documents'[saveTimeout.id] = saveTimeout ]_vars

\* C24: a deleted document stays deleted: an id comes into the documents
\* collection only with the new document of handleNewDocument (no import
\* running); the auto-save timer never brings an id back.
DeletedDocumentStaysDeleted ==
  [][ \A id \in DOMAIN documents' \ DOMAIN documents :
        /\ ~(saveTimeout # NoDocument /\ saveTimeout' = NoDocument)
        /\ \E later \in Clock : documents'[id] = NewDocument(id, NULL, later) ]_vars

(***************************************************************************)
(* Properties of concurrent ticket operations (SpecTickets, SpecRace).     *)
(***************************************************************************)
\* C25: a deleted ticket stays deleted: an id comes into the tickets
\* collection only by createTicket; no updateTicket or moveTicket, not even
\* one that read the ticket before its deletion and writes afterwards, puts
\* a ticket back.
DeletedTicketStaysDeleted ==
  [][ \A id \in DOMAIN tickets' \ DOMAIN tickets :
        last'.op = "createTicket" /\ last'.arg = id ]_vars

\* What two callers change of one ticket at the same time in the model: a
\* drag to another column and an edit of the priority in the modal.
RaceUpdates == { [status |-> "done"], [priority |-> "low"] }

\* The board over a store that holds one ticket.
InitRace ==
  /\ Opened
  /\ documents = EmptyStore
  /\ folders = EmptyStore
  /\ tickets = [k \in {"t1"} |->
       Ticket("t1", "Fix login bug", "todo", "high", <<"bug">>, NULL, 0, 0)]
  /\ index = [p \in AllIndexes |-> {}] @@ IndexOfContent("tickets", tickets)
  /\ origin = [version |-> DB_VERSION, documents |-> EmptyStore, folders |-> EmptyStore]
  /\ Quiet

\* A call of the store's updateTicket(ticket) by any caller, up to its put.
updateTicketInFlight(ticket) ==
  /\ db # NoDb
  /\ Len(pending) < MaxInFlight
  /\ pending' = Append(pending, ticket)
  /\ UNCHANGED <<disk, conn, page, history, tx, snapshot, now, ticketsState,
                 errorState, last>>

\* Updates of one ticket overlapping each other.
NextRace ==
  \/ Tick
  \/ \E u \in RaceUpdates : hook_updateTicketWithin(MaxInFlight, "t1", u)
  \/ \E ticket \in { t \in TicketValues : t.id = "t1" } : updateTicketInFlight(ticket)
  \/ hook_updateTicketWrite
  \/ hook_updateTicketFails("t1")

SpecRace == InitRace /\ [][NextRace]_vars

\* C26: last write wins without merging: of the puts in flight for one id,
\* each one that completes leaves exactly its record in the store, whatever
\* was stored and whichever updatedAt is larger, so that after two of them the
\* store holds the record of the one that completed last and never a mixture;
\* an update computed from a ticket read before another update was written
\* undoes that update's change.
LastWriteWins ==
  [][ (pending # <<>> /\ pending' = Tail(pending) /\ last'.ok) =>
        /\ tickets' = Put(tickets, Head(pending))
        /\ tickets'[Head(pending).id] = Head(pending)
        /\ getAllTickets' = ticketsState' ]_vars

\* Two updates of the ticket were in flight, one of the status and one of the
\* priority, both computed from the same stored ticket; the first has been
\* written and the second is about to put the old status back.
SecondWriteUndoesFirst ==
  /\ Len(pending) = 1
  /\ pending[1].id = "t1" /\ pending[1].priority = "low" /\ pending[1].status = "todo"
  /\ "t1" \in DOMAIN tickets
  /\ tickets["t1"].status = "done" /\ tickets["t1"].priority = "high"
  /\ last.op = "updateTicket" /\ last.arg = "t1" /\ last.ok

(***************************************************************************)
(* Properties of the order of an import (SpecImport).                      *)
(***************************************************************************)
\* A step in which importWorkspace puts a document.
DocumentWrite ==
  /\ tx.pc = "running" /\ tx'.pc = "running"
  /\ tx.documents # <<>>
  /\ tx'.documents = Tail(tx.documents)

\* C27: importWorkspace puts a document only when every folder of the file
\* has been put and its put has completed: no folder of the file is still to
\* be written, and the folders collection holds each of them.
FoldersBeforeDocuments ==
  [][ DocumentWrite =>
        /\ tx.folders = <<>>
        /\ tx.applied >= Len(Field(tx.data, "folders"))
        /\ \A i \in DOMAIN Field(tx.data, "folders") :
             LET folder == Field(tx.data, "folders")[i]
             IN /\ folder.id \in DOMAIN folders
                /\ folders[folder.id] = LastWithId(Field(tx.data, "folders"), folder.id) ]_vars

\* An import has put its two folders and the first of its two documents.
DocumentPutAfterFolders ==
  /\ tx.pc = "running"
  /\ Len(Field(tx.data, "folders")) = 2
  /\ Len(Field(tx.data, "documents")) = 2
  /\ tx.applied = 3
  /\ Len(tx.documents) = 1

(***************************************************************************)
(* Properties of the upgrade routine (SpecOpen).                           *)
(***************************************************************************)
StoreContent(store) ==
  CASE store = "documents" -> documents
    [] store = "folders" -> folders
    [] store = "tickets" -> tickets

RECURSIVE buildTree(_)
\* buildTree(parentId): the folders whose parentId is parentId, each with the
\* tree below it, then the documents whose folderId is parentId.
buildTree(parentId) ==
  LET below == SelectSeq(getAllFolders, LAMBDA f : f.parentId = parentId)
      docs == SelectSeq(getAllDocuments, LAMBDA d : d.folderId = parentId)
  IN [i \in DOMAIN below |->
        [type |-> "folder", data |-> below[i], children |-> buildTree(below[i].id)]]
     \o [i \in DOMAIN docs |-> [type |-> "document", data |-> docs[i]]]

fileTree == buildTree(NULL)

RECURSIVE ItemsOf(_)
\* Every item of a tree, at any depth.
ItemsOf(items) ==
  Range(items) \cup
    UNION { ItemsOf(item.children) : item \in { x \in Range(items) : x.type = "folder" } }

\* The ids of the items of one type among `items`.
IdsOf(items, type) == { item.data.id : item \in { x \in items : x.type = type } }

\* C29: every stored document is in the sidebar tree buildTree(null), and a
\* document whose folderId names no stored folder, like a folder whose
\* parentId names no stored folder, is an item of its root level.
OrphansAtRoot ==
  /\ \A id \in DOMAIN documents :
       /\ id \in IdsOf(ItemsOf(fileTree), "document")
       /\ documents[id].folderId \notin DOMAIN folders \cup {NULL} =>
            id \in IdsOf(Range(fileTree), "document")
  /\ \A id \in DOMAIN folders :
       folders[id].parentId \notin DOMAIN folders \cup {NULL} =>
         id \in IdsOf(Range(fileTree), "folder")

(***************************************************************************)
(* Properties of deleteFolder (Spec).                                      *)
(***************************************************************************)
\* C30: deleteFolder(id) removes the folder record with that id and nothing
\* else: every document, those of the folder included, every other folder,
\* its subfolders included, and every ticket is as before, with its index
\* entries.
FolderDeleteDoesNotCascade ==
  [][ last'.op = "deleteFolder" =>
        /\ documents' = documents
        /\ tickets' = tickets
        /\ DOMAIN folders' = DOMAIN folders \ {last'.arg}
        /\ \A k \in DOMAIN folders' : folders'[k] = folders[k]
        /\ \A p \in DOMAIN index : p[1] # "folders" => index'[p] = index[p] ]_vars

\* A folder that held a document and a subfolder was deleted; both are still
\* stored and still name it.
FolderDeletedUnderContent ==
  /\ last.op = "deleteFolder" /\ last.had
  /\ \E d \in DOMAIN documents : documents[d].folderId = last.arg
  /\ \E f \in DOMAIN folders : folders[f].parentId = last.arg
  /\ tickets # EmptyStore

====
